---- MODULE Spec2Model ----
(***************************************************************************)
(* Model of the Enever integration's update coordinators                   *)
(* (custom_components/enever/coordinator.py): the cached state and its     *)
(* (de)serialisation, the request gate, the freshness predicates of the    *)
(* gas and electricity coordinators, and the tick (_async_update_data).    *)
(*                                                                         *)
(* Time is counted in minutes.  A datetime is a record [wall, off]: the    *)
(* wall-clock minute in its own time zone and that zone's UTC offset.      *)
(* An optional value (x | None) is a sequence: <<>> is None, <<x>> is x.   *)
(***************************************************************************)
EXTENDS Integers, Sequences, FiniteSets, TLC

----------------------------------------------------------------------------
(* Optional values *)

None == <<>>
Some(x) == <<x>>
IsNone(o) == Len(o) = 0
Get(o) == o[1]

----------------------------------------------------------------------------
(* Program constants (minutes) *)

MIN_TIME_BETWEEN_REQUESTS_GAS == 15
MIN_TIME_BETWEEN_REQUESTS_ELECTRICITY == 60
MAX_ATTEMPTS_COUNT == 2

\* timedelta(days=1)
MinutesPerDay == 24 * 60

\* The UTC offset of Home Assistant's default time zone (+01:00).
LocalOffset == 60

----------------------------------------------------------------------------
(* datetime *)

DateTime(w, o) == [wall |-> w, off |-> o]

\* The UTC instant: aware datetimes are compared and subtracted by instant.
Instant(dt) == dt.wall - dt.off

\* datetime.date(), datetime.hour
DateOf(dt) == dt.wall \div MinutesPerDay
HourOf(dt) == (dt.wall % MinutesPerDay) \div 60
MinuteOf(dt) == dt.wall % 60

\* datetime + timedelta(minutes=m): wall-clock arithmetic, same zone
Plus(dt, m) == [dt EXCEPT !.wall = @ + m]

\* homeassistant.util.dt.as_local: the same instant in the default time zone
as_local(dt) == DateTime(Instant(dt) + LocalOffset, LocalOffset)

\* datetime.isoformat(): the text YYYY-MM-DDTHH:MM+HH:MM, held by its fields
isoformat(dt) ==
    [date |-> DateOf(dt), hour |-> HourOf(dt), minute |-> MinuteOf(dt), tz |-> dt.off]

\* datetime.fromisoformat()
fromisoformat(s) ==
    DateTime(s.date * MinutesPerDay + s.hour * 60 + s.minute, s.tz)

\* datetime.combine(date, time(hour=h), get_default_time_zone())
combine(date, h) == DateTime(date * MinutesPerDay + h * 60, LocalOffset)

----------------------------------------------------------------------------
(* Serialisation of the cached state *)

_datetime_to_str(value) ==
    IF IsNone(value) THEN None ELSE Some(isoformat(Get(value)))

_str_to_datetime(value) ==
    IF IsNone(value) THEN None ELSE Some(as_local(fromisoformat(Get(value))))

\* data.today is None or len(data.today) == 0
NoBatch(batch) == IF IsNone(batch) THEN TRUE ELSE Len(Get(batch)) = 0

\* EneverData(datum, prijs)
EneverData(datum, prijs) == [datum |-> datum, prijs |-> prijs]

HasDatum(value) == ~IsNone(_str_to_datetime(value.datum))

ItemFromDict(value) ==
    EneverData(Get(_str_to_datetime(value.datum)), value.prijs)

_data_from_dict(data) ==
    IF IsNone(data) THEN None
    ELSE LET kept == SelectSeq(Get(data), HasDatum)
         IN  Some([i \in 1..Len(kept) |-> ItemFromDict(kept[i])])

ItemToDict(value) ==
    [datum |-> _datetime_to_str(Some(value.datum)), prijs |-> value.prijs]

\* Mutant: an empty batch is saved as no batch
_data_to_dict_EmptyAsNone(data) ==
    IF NoBatch(data) THEN None
    ELSE Some([i \in 1..Len(Get(data)) |-> ItemToDict(Get(data)[i])])

_data_to_dict(data) ==
    IF IsNone(data) THEN None
    ELSE Some([i \in 1..Len(Get(data)) |-> ItemToDict(Get(data)[i])])

\* EneverCoordinatorData(...)
EneverCoordinatorData(t, tl, ta, m, ml, ma) ==
    [today |-> t, today_lastrequest |-> tl, today_attempt |-> ta,
     tomorrow |-> m, tomorrow_lastrequest |-> ml, tomorrow_attempt |-> ma]

\* dict.get(key, 0) for the attempt counters
GetAttempt(d, key) == IF key \in DOMAIN d THEN d[key] ELSE 0

\* EneverCoordinatorData.from_dict; data is the loaded record or None
from_dict(data) ==
    IF IsNone(data)
    THEN EneverCoordinatorData(None, None, 0, None, None, 0)
    ELSE LET d == Get(data)
         IN  EneverCoordinatorData(
                 _data_from_dict(d.today),
                 _str_to_datetime(d.today_lastrequest),
                 GetAttempt(d, "today_attempt"),
                 _data_from_dict(d.tomorrow),
                 _str_to_datetime(d.tomorrow_lastrequest),
                 GetAttempt(d, "tomorrow_attempt"))

\* EneverCoordinatorData.to_dict
to_dict(self) ==
    [today |-> _data_to_dict(self.today),
     today_lastrequest |-> _datetime_to_str(self.today_lastrequest),
     today_attempt |-> self.today_attempt,
     tomorrow |-> _data_to_dict(self.tomorrow),
     tomorrow_lastrequest |-> _datetime_to_str(self.tomorrow_lastrequest),
     tomorrow_attempt |-> self.tomorrow_attempt]

----------------------------------------------------------------------------
(* The request gate *)

_get_request_interval(kind) ==
    IF kind = "gas" THEN MIN_TIME_BETWEEN_REQUESTS_GAS
    ELSE MIN_TIME_BETWEEN_REQUESTS_ELECTRICITY

\* Mutant: the throttle is left out, only the daily cap closes the gate
_allow_request_NoThrottle(kind, now, lastrequest, attempt) ==
    IF IsNone(lastrequest) THEN TRUE
    ELSE IF attempt >= MAX_ATTEMPTS_COUNT THEN FALSE
    ELSE TRUE

_allow_request(kind, now, lastrequest, attempt) ==
    IF IsNone(lastrequest) THEN TRUE
    ELSE IF Instant(now) - Instant(Get(lastrequest)) < _get_request_interval(kind)
         THEN FALSE
    ELSE IF attempt >= MAX_ATTEMPTS_COUNT THEN FALSE
    ELSE TRUE

_allow_request_today(kind, now, data) ==
    _allow_request(kind, now, data.today_lastrequest, data.today_attempt)

\* Mutant: the two feeds share one daily allowance
_allow_request_tomorrow_SharedCounter(kind, now, data) ==
    _allow_request(kind, now, data.tomorrow_lastrequest,
                   data.today_attempt + data.tomorrow_attempt)

_allow_request_tomorrow(kind, now, data) ==
    _allow_request(kind, now, data.tomorrow_lastrequest, data.tomorrow_attempt)

----------------------------------------------------------------------------
(* The freshness predicates *)

\* Mutant: the batch expires only after the instant it is valid to
Gas_should_update_today_Late(now, data) ==
    IF NoBatch(data.today) THEN TRUE
    ELSE LET data_validto == Plus(Get(data.today)[1].datum, MinutesPerDay)
         IN  Instant(now) > Instant(data_validto)

Gas_should_update_today(now, data) ==
    IF NoBatch(data.today) THEN TRUE
    ELSE LET data_validto == Plus(Get(data.today)[1].datum, MinutesPerDay)
         IN  Instant(now) >= Instant(data_validto)

\* Mutant: the gas coordinator asks for tomorrow's batch in the afternoon
Gas_should_update_tomorrow_Afternoon(now, data) == HourOf(now) >= 15

Gas_should_update_tomorrow(now, data) == FALSE

\* Mutant: the batch is kept until a day after it was requested
Electricity_should_update_today_DayLater(now, data) ==
    IF NoBatch(data.today) THEN TRUE
    ELSE IF IsNone(data.today_lastrequest)
         THEN DateOf(now) # DateOf(Get(data.today)[1].datum)
    ELSE Instant(now) >= Instant(Plus(Get(data.today_lastrequest), MinutesPerDay))

Electricity_should_update_today(now, data) ==
    IF NoBatch(data.today) THEN TRUE
    ELSE DateOf(now) # DateOf(Get(data.today)[1].datum)

\* Mutant: with nothing cached tomorrow's batch is asked for from noon
Electricity_should_update_tomorrow_FromNoon(now, data) ==
    IF NoBatch(data.tomorrow) THEN HourOf(now) >= 12
    ELSE LET data_validto == combine(DateOf(Get(data.tomorrow)[1].datum), 15)
         IN  Instant(now) >= Instant(data_validto)

\* Mutant: a cached batch is stale from the start of its day
Electricity_should_update_tomorrow_AtMidnight(now, data) ==
    IF NoBatch(data.tomorrow) THEN HourOf(now) >= 15
    ELSE LET data_validto == combine(DateOf(Get(data.tomorrow)[1].datum), 0)
         IN  Instant(now) >= Instant(data_validto)

Electricity_should_update_tomorrow(now, data) ==
    IF NoBatch(data.tomorrow) THEN HourOf(now) >= 15
    ELSE LET data_validto == combine(DateOf(Get(data.tomorrow)[1].datum), 15)
         IN  Instant(now) >= Instant(data_validto)

_should_update_today(kind, now, data) ==
    IF kind = "gas" THEN Gas_should_update_today(now, data)
    ELSE Electricity_should_update_today(now, data)

_should_update_tomorrow(kind, now, data) ==
    IF kind = "gas" THEN Gas_should_update_tomorrow(now, data)
    ELSE Electricity_should_update_tomorrow(now, data)

----------------------------------------------------------------------------
(* The poll interval, in seconds *)

_get_update_interval(data) == IF IsNone(data) THEN 5 ELSE 60

----------------------------------------------------------------------------
(* The storage key (Store(hass, STORAGE_VERSION, f"{DOMAIN}.{key}")) *)

\* const.DOMAIN
EneverDomain == "enever"

\* The options of the resolution selector (config_flow.py)
Resolutions == {"60", "15"}

\* A dotted name, held by its parts
Gas_get_storage_key(resolution) == <<"gas">>

\* Mutant: one record for the electricity feed, whatever the resolution
Electricity_get_storage_key_NoResolution(resolution) == <<"electricity">>

\* f"electricity.{config_entry.data[CONF_RESOLUTION]}"
Electricity_get_storage_key(resolution) == <<"electricity", resolution>>

_get_storage_key(k, resolution) ==
    IF k = "gas" THEN Gas_get_storage_key(resolution)
    ELSE Electricity_get_storage_key(resolution)

\* The key of the coordinator's Store
StoreKey(k, resolution) == <<EneverDomain>> \o _get_storage_key(k, resolution)

\* The record a set of store files holds under a key: None when there is no
\* such file
FileAt(files, key) == IF key \in DOMAIN files THEN files[key] ELSE None

----------------------------------------------------------------------------
(* The API client (enever_api.py) *)

\* What a call ends with: a value returned or an exception raised (its class
\* name and the arguments it was constructed with)
Return(value) == [kind |-> "return", value |-> value]
Raise(error, args) == [kind |-> "raise", error |-> error, args |-> args]

\* JSON values of a response payload
JsonList(items) == [type |-> "list", items |-> items]
JsonStr(text) == [type |-> "str", text |-> text]
JsonNull == [type |-> "null"]

\* EneverData.from_dict: item.datum is None when parse_datetime finds no
\* datetime in the text; item.prijs maps a provider key K to the value of
\* "prijsK" (None for null), of the providers the item names
EneverData_from_dict(item) ==
    IF IsNone(item.datum)
    THEN Raise("ValueError", <<"datum could not be parsed as a datetime">>)
    ELSE Return(EneverData(
             as_local(fromisoformat(Get(item.datum))),
             [key \in {k \in DOMAIN item.prijs : ~IsNone(item.prijs[k])} |->
                 item.prijs[key]]))

\* EneverResponse.from_dict: the first item that cannot be parsed raises
EneverResponse_from_dict(data) ==
    LET parsed == [i \in 1..Len(data) |-> EneverData_from_dict(data[i])]
        failed == {i \in 1..Len(data) : parsed[i].kind = "raise"}
    IN  IF failed # {}
        THEN parsed[CHOOSE i \in failed : \A j \in failed : i <= j]
        ELSE Return([i \in 1..Len(data) |-> parsed[i].value])

\* What _fetch_raw ends with: the transport's exception, or a response with a
\* status code and a body that is JSON (an object) or not
RawResponse(status_code, body) ==
    [transport |-> "ok", status_code |-> status_code, body |-> body]
RawFailure(exception) == [transport |-> exception]

\* response.json()
IsJson(body) == body.json

\* EneverAPI._fetch_parsed
_fetch_parsed(raw) ==
    IF raw.transport = "TimeoutException" THEN Raise("EneverCannotConnect", <<>>)
    ELSE IF raw.transport # "ok" THEN Raise(raw.transport, <<>>)
    ELSE IF raw.status_code # 200
    THEN Raise("EneverError", <<"HTTP status", raw.status_code>>)
    ELSE IF ~IsJson(raw.body) THEN Raise("JSONDecodeError", <<>>)
    ELSE LET response_payload == raw.body.payload
         IN  IF "data" \notin DOMAIN response_payload
             THEN Raise("EneverError", <<"No data element in response">>)
             ELSE IF response_payload.data.type # "list"
             THEN IF "code" \notin DOMAIN response_payload
                  THEN Raise("KeyError", <<"code">>)
                  ELSE IF response_payload.code = "2"
                  THEN Raise("EneverInvalidToken", <<>>)
                  ELSE IF response_payload.data.type # "str"
                  THEN Raise("TypeError", <<>>)
                  ELSE Raise("EneverError",
                             <<"Invalid data element in response: ",
                               response_payload.data.text>>)
             ELSE EneverResponse_from_dict(response_payload.data.items)

\* Mutant: a status other than 200 is taken for a denied token
validate_token_DeniedOnStatus(raw) ==
    IF raw.transport = "TimeoutException" THEN Raise("EneverCannotConnect", <<>>)
    ELSE IF raw.transport # "ok" THEN Raise(raw.transport, <<>>)
    ELSE IF raw.status_code # 200 THEN Raise("EneverInvalidToken", <<>>)
    ELSE IF ~IsJson(raw.body) THEN Raise("JSONDecodeError", <<>>)
    ELSE IF "code" \notin DOMAIN raw.body.payload THEN Raise("KeyError", <<"code">>)
    ELSE IF raw.body.payload.code = "2" THEN Raise("EneverInvalidToken", <<>>)
    ELSE Return(None)

\* EneverAPI.validate_token
validate_token(raw) ==
    IF raw.transport = "TimeoutException" THEN Raise("EneverCannotConnect", <<>>)
    ELSE IF raw.transport # "ok" THEN Raise(raw.transport, <<>>)
    ELSE IF raw.status_code # 200 THEN Raise("EneverError", <<raw.status_code>>)
    ELSE IF ~IsJson(raw.body) THEN Raise("JSONDecodeError", <<>>)
    ELSE IF "code" \notin DOMAIN raw.body.payload THEN Raise("KeyError", <<"code">>)
    ELSE IF raw.body.payload.code = "2" THEN Raise("EneverInvalidToken", <<>>)
    ELSE Return(None)

\* EneverConfigFlow.async_step_user with user input: the entry is created or
\* the form is shown again with errors["base"]
async_step_user(raw) ==
    LET validated == validate_token(raw)
    IN  IF validated.kind = "return" THEN "create_entry"
        ELSE IF validated.error = "EneverCannotConnect" THEN "cannot_connect"
        ELSE IF validated.error = "EneverInvalidToken" THEN "invalid_auth"
        ELSE "unknown"

----------------------------------------------------------------------------
(* The electricity sensor's averages (sensor.py) *)

\* A float: the quotient num / den, not rounded
Ratio(num, den) == [num |-> num, den |-> den]

\* sum(valid_prices)
RECURSIVE sum(_)
sum(values) == IF Len(values) = 0 THEN 0 ELSE Head(values) + sum(Tail(values))

\* data_item["price"] is not None
HasPrice(data_item) == ~IsNone(data_item.price)

\* EneverElectricitySensorEntity._calculate_average_price; data is None or a
\* list of items {"time", "price"}
_calculate_average_price(data) ==
    IF NoBatch(data) THEN None
    ELSE LET valid == SelectSeq(Get(data), HasPrice)
             valid_prices == [i \in 1..Len(valid) |-> Get(valid[i].price)]
         IN  IF Len(valid_prices) > 0
             THEN Some(Ratio(sum(valid_prices), Len(valid_prices)))
             ELSE Some(Ratio(0, 1))

----------------------------------------------------------------------------
(* The request count sensor (sensor.py, EneverRequestCountSensorEntity) *)

\* Days of a calendar month; a date is a day number and day 0 is the first
\* day of a month
DaysInMonth == 30

\* date.replace(day=1)
replace_day_1(date) == date - (date % DaysInMonth)

\* date.isoformat(): the text YYYY-MM-DD, held by its fields (month counts
\* the months of all years); date.fromisoformat()
date_isoformat(date) ==
    [month |-> date \div DaysInMonth, day |-> (date % DaysInMonth) + 1]
date_fromisoformat(text) == text.month * DaysInMonth + (text.day - 1)

\* The month attribute: a date, or the text of one after a restore
DateTag(date) == [type |-> "date", date |-> date]
StrTag(text) == [type |-> "str", text |-> text]

\* A state in the state machine: str(native_value), or unknown
StateOf(native_value) ==
    IF IsNone(native_value) THEN [text |-> "unknown"]
    ELSE [text |-> "int", int |-> Get(native_value)]

\* The sensor before it is added: no value, no attributes, and the last
\* state the state machine recorded for it (None when there is none)
NewSensor(written) ==
    [added |-> FALSE, native_value |-> None, month |-> None, written |-> written]
NoSensor == NewSensor(None)

\* self.async_write_ha_state(): attributes are written as JSON, a date as
\* its ISO text
async_write_ha_state(self) ==
    [self EXCEPT !.written =
        Some([state |-> StateOf(self.native_value),
              month |-> IF IsNone(self.month) THEN None
                        ELSE IF Get(self.month).type = "date"
                        THEN Some(date_isoformat(Get(self.month).date))
                        ELSE Some(Get(self.month).text)])]

\* counter_month in _reset_month
counter_month(self) ==
    IF IsNone(self.month) THEN None
    ELSE IF Get(self.month).type = "date" THEN Some(Get(self.month).date)
    ELSE Some(date_fromisoformat(Get(self.month).text))

\* Mutant: a new month is tagged but the counter is not set back
_reset_month_KeepsCounter(self, now) ==
    LET start_of_month == replace_day_1(DateOf(now))
    IN  IF counter_month(self) # Some(start_of_month)
        THEN [self EXCEPT !.native_value = IF IsNone(@) THEN Some(0) ELSE @,
                          !.month = Some(DateTag(start_of_month))]
        ELSE self

\* _reset_month: the sensor after the call (it returns True when the sensor
\* changed)
_reset_month(self, now) ==
    LET start_of_month == replace_day_1(DateOf(now))
    IN  IF counter_month(self) # Some(start_of_month)
        THEN [self EXCEPT !.native_value = Some(0),
                          !.month = Some(DateTag(start_of_month))]
        ELSE self

\* count_api_request
count_api_request(self, now) ==
    LET reset == _reset_month(self, now)
    IN  async_write_ha_state(
            [reset EXCEPT !.native_value =
                IF IsNone(@) THEN Some(1) ELSE Some(Get(@) + 1)])

\* _handle_day_change
_handle_day_change(self, now) ==
    IF _reset_month(self, now) # self
    THEN async_write_ha_state(_reset_month(self, now))
    ELSE self

\* async_added_to_hass, but for the attach: the last state is restored, its
\* state parsed by int() (0 on ValueError), and the month is reset
async_added_to_hass(self, now) ==
    LET restored ==
            IF IsNone(self.written) THEN self
            ELSE LET state == Get(self.written)
                 IN  async_write_ha_state(
                         [self EXCEPT
                             !.native_value =
                                 IF state.state.text = "int"
                                 THEN Some(state.state.int) ELSE Some(0),
                             !.month = IF IsNone(state.month) THEN None
                                       ELSE Some(StrTag(Get(state.month)))])
        added == [restored EXCEPT !.added = TRUE]
    IN  IF _reset_month(added, now) # added
        THEN async_write_ha_state(_reset_month(added, now))
        ELSE added

----------------------------------------------------------------------------
(* The price sensors (sensor.py, EneverGasSensorEntity and *)
(* EneverElectricitySensorEntity) *)

\* A price entity of one provider: its value and its extra state attributes
PriceSensor(provider) ==
    [provider |-> provider, native_value |-> None, attrs |-> <<>>]

\* data_item.prijs.get(self.provider)
prijs_get(prijs, provider) ==
    IF provider \in DOMAIN prijs THEN prijs[provider] ELSE None

\* data is not None and len(data) > 0 and data[0].datum.date() == date
DatedOn(batch, date) ==
    IF NoBatch(batch) THEN FALSE ELSE DateOf(Get(batch)[1].datum) = date

\* Mutant: the today feed alone gives today's prices
Electricity_today_NoFallback(data, date_today) ==
    IF DatedOn(data.today, date_today) THEN data.today ELSE None

\* today = data.today if ... else data.tomorrow if ... else None
Electricity_today(data, date_today) ==
    IF DatedOn(data.today, date_today) THEN data.today
    ELSE IF DatedOn(data.tomorrow, date_today) THEN data.tomorrow
    ELSE None

\* tomorrow = data.tomorrow if ... else None
Electricity_tomorrow(data, date_tomorrow) ==
    IF DatedOn(data.tomorrow, date_tomorrow) THEN data.tomorrow ELSE None

\* EneverElectricitySensorEntity._get_provider_data
_get_provider_data(self, data) ==
    IF IsNone(data) THEN None
    ELSE Some([i \in 1..Len(Get(data)) |->
                  [time |-> Get(data)[i].datum,
                   price |-> prijs_get(Get(data)[i].prijs, self.provider)]])

\* max((item for item in data_today if item["time"] <= now),
\*     key=lambda x: x["time"], default=None) if data_today else None:
\* the first of the latest items that have begun
current_item(data_today, now) ==
    IF NoBatch(data_today) THEN None
    ELSE LET begun == SelectSeq(Get(data_today),
                          LAMBDA item : Instant(item.time) <= Instant(now))
         IN  IF Len(begun) = 0 THEN None
             ELSE Some(begun[CHOOSE i \in 1..Len(begun) :
                     /\ \A j \in 1..Len(begun) :
                            Instant(begun[j].time) <= Instant(begun[i].time)
                     /\ \A j \in 1..(i - 1) :
                            Instant(begun[j].time) < Instant(begun[i].time)])

\* EneverElectricitySensorEntity._handle_enever_coordinator_update, after
\* the caller has emptied the extra state attributes
Electricity_handle_enever_coordinator_update(self, data, now) ==
    LET date_today == DateOf(now)
        date_tomorrow == date_today + 1
        data_today ==
            _get_provider_data(self, Electricity_today(data, date_today))
        data_tomorrow ==
            _get_provider_data(self, Electricity_tomorrow(data, date_tomorrow))
        item == current_item(data_today, now)
    IN  [self EXCEPT
            !.native_value = IF IsNone(item) THEN None ELSE Get(item).price,
            !.attrs =
                [today_average |-> _calculate_average_price(data_today),
                 tomorrow_average |-> _calculate_average_price(data_tomorrow),
                 prices_today |-> data_today,
                 prices_tomorrow |-> data_tomorrow,
                 today_lastrequest |-> data.today_lastrequest,
                 tomorrow_lastrequest |-> data.tomorrow_lastrequest]]

\* Mutant: the provider's price is shown as the API quotes it
Gas_handle_enever_coordinator_update_AsQuoted(self, data, now) ==
    IF NoBatch(data.today) THEN [self EXCEPT !.attrs = <<>>]
    ELSE LET data_datetime == Get(data.today)[1].datum
             data_validfrom == Plus(data_datetime, -(2 * 60))
             data_validto == Plus(data_validfrom, 26 * 60)
             provider_price == prijs_get(Get(data.today)[1].prijs, self.provider)
         IN  [self EXCEPT
                 !.native_value =
                     IF /\ Instant(data_validfrom) <= Instant(now)
                        /\ Instant(now) <= Instant(data_validto)
                     THEN provider_price ELSE None,
                 !.attrs = [lastrequest |-> data.today_lastrequest]]

\* EneverGasSensorEntity._handle_enever_coordinator_update, after the
\* caller has emptied the extra state attributes; timedelta(hours=2) and
\* timedelta(hours=26) in minutes
Gas_handle_enever_coordinator_update(self, data, now) ==
    IF NoBatch(data.today) THEN [self EXCEPT !.attrs = <<>>]
    ELSE LET data_datetime == Get(data.today)[1].datum
             data_validfrom == Plus(data_datetime, -(2 * 60))
             data_validto == Plus(data_validfrom, 26 * 60)
             cached_price == prijs_get(Get(data.today)[1].prijs, self.provider)
             provider_price ==
                 IF IsNone(cached_price) THEN cached_price
                 ELSE IF Get(cached_price) < 0 THEN self.native_value
                 ELSE cached_price
         IN  [self EXCEPT
                 !.native_value =
                     IF /\ Instant(data_validfrom) <= Instant(now)
                        /\ Instant(now) <= Instant(data_validto)
                     THEN provider_price ELSE None,
                 !.attrs = [lastrequest |-> data.today_lastrequest]]

----------------------------------------------------------------------------
(* The environment: the clock, the remote API and the store's first content *)

\* Calendar days explored after the first one
Days == 1

\* The first calendar day explored (day 0 is the day before it)
StartClock == 1 * MinutesPerDay

\* The wall-clock times of day a tick can happen at: around midnight, around
\* the hour the gas day starts at and around 15:00, at the distances the
\* request intervals tell apart
TickTimesOfDay ==
    {10, 6 * 60, 15 * 60, 15 * 60 + 10, 16 * 60}

TickTimes ==
    {StartClock + d * MinutesPerDay + t : d \in 0..Days, t \in TickTimesOfDay}

Feeds == {"today", "tomorrow"}

\* Hour of the first quote of a day's batch: the gas day starts at 06:00
BatchHours(kind) == IF kind = "gas" THEN <<6>> ELSE <<0, 12>>

Prijs == [EZ |-> Some(25)]

\* The parsed batch of calendar day d (EneverResponse.data)
Batch(kind, d) ==
    [i \in 1..Len(BatchHours(kind)) |->
        EneverData(combine(d, BatchHours(kind)[i]), Prijs)]

\* What a fetch at `now` can answer: a batch that lags a day or the batch the
\* feed is meant to give
ResponseDays(feed, now) ==
    IF feed = "today" THEN {DateOf(now) - 1, DateOf(now)}
    ELSE {DateOf(now), DateOf(now) + 1}

Responses(kind, feed, now) ==
    {Batch(kind, d) : d \in ResponseDays(feed, now)}

\* What a fetch can raise
FetchErrors ==
    {"EneverInvalidToken", "EneverCannotConnect", "TimeoutError",
     "ConnectError", "EneverError", "ValueError"}

\* A record written by a release that had no attempt counters
LegacyRecord(kind) ==
    [today |-> _data_to_dict(Some(Batch(kind, 0))),
     today_lastrequest |-> _datetime_to_str(Some(combine(0, 7))),
     tomorrow |-> None,
     tomorrow_lastrequest |-> None]

InitialStores(kind) == {None, Some(LegacyRecord(kind))}

----------------------------------------------------------------------------
(* The observers of a coordinator (EneverCoordinatorObserver) *)

\* The request count sensor (unique id suffix api_requests) and one more
\* implementation of the observer interface
Observers == {"api_requests", "other"}

\* observer in self._observers
Attached(list, observer) == \E i \in 1..Len(list) : list[i] = observer

\* self._observers.append(observer)
attach(list, observer) == Append(list, observer)

\* self._observers.remove(observer) of an observer the list holds: the first
\* occurrence goes
detach(list, observer) ==
    LET first == CHOOSE i \in 1..Len(list) :
                     /\ list[i] = observer
                     /\ \A j \in 1..(i - 1) : list[j] # observer
    IN  SubSeq(list, 1, first - 1) \o SubSeq(list, first + 1, Len(list))

\* Mutant: only the observer attached first is notified
_count_api_request_FirstOnly(list, received) ==
    [o \in Observers |->
        received[o] + (IF Len(list) > 0 /\ list[1] = o THEN 1 ELSE 0)]

\* for observer in self._observers: observer.count_api_request(); received
\* counts the calls each observer got
_count_api_request(list, received) ==
    [o \in Observers |->
        received[o] + Cardinality({i \in 1..Len(list) : list[i] = o})]

----------------------------------------------------------------------------
(* State *)

VARIABLES
    kind,             \* "gas" or "electricity": which coordinator this is
    clock,            \* dt_util.now(), wall-clock minutes in the local zone
    data,             \* self.data: None before the first tick
    stored,           \* the record self.store holds: None when nothing was saved
    update_interval,  \* self.update_interval, seconds
    observers,        \* self._observers
    pc,               \* where _async_update_data is: idle or awaiting a fetch
    now,              \* the running tick's local now
    new_data,         \* the running tick's local new_data
    store,            \* the running tick's local store flag
    tick,             \* what the last tick has done so far (history)
    fetched,          \* per feed: fetch attempts on the last day it was fetched
    arg,              \* the argument of a function applied on its own
    ret,              \* what that function returned
    sensor            \* the request count sensor (sensor.py)

vars ==
    <<kind, clock, data, stored, update_interval, observers, pc, now,
      new_data, store, tick, fetched, arg, ret, sensor>>

\* The coordinator and its environment
coordinator ==
    <<kind, clock, data, stored, update_interval, observers, pc, now,
      new_data, store, tick, fetched>>

NoFeed == [today |-> FALSE, tomorrow |-> FALSE]

NoTick ==
    [kind |-> "none", result |-> "none", throttled |-> NoFeed,
     eligible |-> NoFeed, attempted |-> NoFeed, raised |-> "none",
     log |-> "", saved |-> FALSE, changed |-> FALSE, notified |-> 0,
     received |-> [o \in Observers |-> 0]]

Init ==
    /\ kind \in {"gas", "electricity"}
    /\ clock = StartClock
    /\ data = None
    /\ stored \in InitialStores(kind)
    /\ update_interval = _get_update_interval(None)
    /\ observers = <<"api_requests">>
    /\ pc = "idle"
    /\ now = DateTime(StartClock, LocalOffset)
    /\ new_data = None
    /\ store = FALSE
    /\ tick = NoTick
    /\ fetched = [f \in Feeds |-> [day |-> DateOf(now), n |-> 0]]
    /\ arg = None
    /\ ret = None
    /\ sensor = NoSensor

----------------------------------------------------------------------------
(* The tick: EneverUpdateCoordinator._async_update_data *)

\* Mutant: every last request counts as one of today
was_today_Always(value, n) == TRUE

\* Mutant: a feed never requested counts as requested on another day
was_today_NoneIsOld(value, n) ==
    IF IsNone(value) THEN FALSE ELSE DateOf(Get(value)) = DateOf(n)

\* was_today(value)
was_today(value, n) == IF IsNone(value) THEN TRUE ELSE DateOf(Get(value)) = DateOf(n)

\* The feed's last-request timestamp is present and closer than the interval
Throttled(k, n, lastrequest) ==
    IF IsNone(lastrequest) THEN FALSE
    ELSE Instant(n) - Instant(Get(lastrequest)) < _get_request_interval(k)

\* One more fetch attempt of a feed on n's calendar day
Counted(f, feed, n) ==
    [f EXCEPT ![feed] =
        IF @.day = DateOf(n) THEN [@ EXCEPT !.n = @ + 1]
        ELSE [day |-> DateOf(n), n |-> 1]]

\* Mutant: no except clause for the other exceptions
Handler_NoCatchAll(e) ==
    IF e = "EneverInvalidToken" THEN "API token was denied"
    ELSE IF e \in {"TimeoutError", "ConnectError", "EneverCannotConnect"}
         THEN "Connection timed out"
    ELSE ""

\* The except clause that handles a raised error ("" when none does)
Handler(e) ==
    IF e = "EneverInvalidToken" THEN "API token was denied"
    ELSE IF e \in {"TimeoutError", "ConnectError", "EneverCannotConnect"}
         THEN "Connection timed out"
    ELSE IF e \in FetchErrors THEN "Error while fetching data"
    ELSE ""

\* Mutant: a tick whose fetch raised does not save
Leave_SavesOnlyCompleted(nd, st, tk, completed, log) ==
    LET escaped == ~completed /\ log = ""
    IN  /\ pc' = "idle"
        /\ update_interval' =
               IF completed THEN _get_update_interval(Some(nd)) ELSE update_interval
        /\ stored' = IF st /\ completed THEN Some(to_dict(nd)) ELSE stored
        /\ data' = IF escaped THEN data ELSE Some(nd)
        /\ new_data' = None
        /\ store' = FALSE
        /\ tick' = [tk EXCEPT !.result = IF escaped THEN "raised" ELSE "returned",
                              !.log = log, !.saved = st /\ completed,
                              !.changed = ~escaped /\ nd # Get(data)]

\* Lines 247-258: the end of the try body (completed) or an except clause,
\* then finally and return.  An error no clause handles leaves the tick
\* through finally without returning.
Leave(nd, st, tk, completed, log) ==
    LET escaped == ~completed /\ log = ""
    IN  /\ pc' = "idle"
        /\ update_interval' =
               IF completed THEN _get_update_interval(Some(nd)) ELSE update_interval
        /\ stored' = IF st THEN Some(to_dict(nd)) ELSE stored
        /\ data' = IF escaped THEN data ELSE Some(nd)
        /\ new_data' = None
        /\ store' = FALSE
        /\ tick' = [tk EXCEPT !.result = IF escaped THEN "raised" ELSE "returned",
                              !.log = log, !.saved = st,
                              !.changed = ~escaped /\ nd # Get(data)]

\* Mutant: the state is published as soon as tomorrow's fetch is issued
Tomorrow_PublishesEarly(n, nd, st, tk) ==
    IF /\ _allow_request_tomorrow(kind, n, nd)
       /\ _should_update_tomorrow(kind, n, nd)
    THEN /\ pc' = "fetch_tomorrow"
         /\ new_data' = Some([nd EXCEPT !.tomorrow_attempt = @ + 1])
         /\ data' = new_data'
         /\ store' = TRUE
         /\ tick' = [tk EXCEPT !.attempted.tomorrow = TRUE,
                               !.notified = @ + Len(observers),
                               !.received = _count_api_request(observers, @)]
         /\ fetched' = Counted(fetched, "tomorrow", n)
         /\ UNCHANGED <<stored, update_interval>>
    ELSE /\ Leave(nd, st, tk, TRUE, "")
         /\ fetched' = fetched

\* Lines 231-247: tomorrow's part of the try body
Tomorrow(n, nd, st, tk) ==
    IF /\ _allow_request_tomorrow(kind, n, nd)
       /\ _should_update_tomorrow(kind, n, nd)
    THEN /\ pc' = "fetch_tomorrow"
         /\ new_data' = Some([nd EXCEPT !.tomorrow_attempt = @ + 1])
         /\ store' = TRUE
         /\ tick' = [tk EXCEPT !.attempted.tomorrow = TRUE,
                               !.notified = @ + Len(observers),
                               !.received = _count_api_request(observers, @)]
         /\ fetched' = Counted(fetched, "tomorrow", n)
         /\ UNCHANGED <<data, stored, update_interval>>
    ELSE /\ Leave(nd, st, tk, TRUE, "")
         /\ fetched' = fetched

\* Mutant: the first tick writes what it loaded back to the store
TickLoad_Saves ==
    /\ pc = "idle"
    /\ IsNone(data)
    /\ data' = Some(from_dict(stored))
    /\ stored' = Some(to_dict(from_dict(stored)))
    /\ tick' = [NoTick EXCEPT !.kind = "load", !.result = "returned"]
    /\ UNCHANGED <<kind, clock, update_interval, observers, pc, now,
                   new_data, store, fetched, arg, ret, sensor>>

\* Lines 182-186: the first tick loads the stored record and returns it
TickLoad ==
    /\ pc = "idle"
    /\ IsNone(data)
    /\ data' = Some(from_dict(stored))
    /\ tick' = [NoTick EXCEPT !.kind = "load", !.result = "returned"]
    /\ UNCHANGED <<kind, clock, stored, update_interval, observers, pc, now,
                   new_data, store, fetched, arg, ret, sensor>>

\* Lines 188-226: a later tick, at wall-clock time t, up to its
\* first fetch (or to its return when it fetches nothing)
TickBegin(t) ==
    /\ pc = "idle"
    /\ ~IsNone(data)
    /\ t > clock
    /\ clock' = t
    /\ now' = DateTime(clock', LocalOffset)
    /\ LET self == Get(data)
           reset_today == ~was_today(self.today_lastrequest, now')
           reset_tomorrow == ~was_today(self.tomorrow_lastrequest, now')
           nd == [self EXCEPT
                     !.today_attempt = IF reset_today THEN 0 ELSE @,
                     !.tomorrow_attempt = IF reset_tomorrow THEN 0 ELSE @]
           st == reset_today \/ reset_tomorrow
           go_today == /\ _allow_request_today(kind, now', nd)
                       /\ _should_update_today(kind, now', nd)
           go_tomorrow == /\ _allow_request_tomorrow(kind, now', nd)
                          /\ _should_update_tomorrow(kind, now', nd)
           tk == [NoTick EXCEPT
                     !.kind = "update", !.result = "running",
                     !.throttled =
                         [today |-> Throttled(kind, now', self.today_lastrequest),
                          tomorrow |-> Throttled(kind, now', self.tomorrow_lastrequest)],
                     !.eligible = [today |-> go_today, tomorrow |-> go_tomorrow]]
       IN  IF go_today
           THEN /\ pc' = "fetch_today"
                /\ new_data' = Some([nd EXCEPT !.today_attempt = @ + 1])
                /\ store' = TRUE
                /\ tick' = [tk EXCEPT !.attempted.today = TRUE,
                                      !.notified = @ + Len(observers),
                                      !.received = _count_api_request(observers, @)]
                /\ fetched' = Counted(fetched, "today", now')
                /\ UNCHANGED <<data, stored, update_interval>>
           ELSE Tomorrow(now', nd, st, tk)
    /\ UNCHANGED <<kind, observers, arg, ret, sensor>>

\* Lines 226-229: today's fetch answers
FetchTodayReturns(response) ==
    /\ pc = "fetch_today"
    /\ LET nd == [Get(new_data) EXCEPT !.today = Some(response),
                                       !.today_lastrequest = Some(now)]
       IN  Tomorrow(now, nd, store, tick)
    /\ UNCHANGED <<kind, clock, observers, now, arg, ret, sensor>>

\* Mutant: a failed fetch leaves no batch behind
FetchTodayRaises_DropsBatch(e) ==
    /\ pc = "fetch_today"
    /\ Leave([Get(new_data) EXCEPT !.today = None], store,
             [tick EXCEPT !.raised = "today"], FALSE, Handler(e))
    /\ UNCHANGED <<kind, clock, observers, now, fetched, arg, ret, sensor>>

\* Line 226: today's fetch raises
FetchTodayRaises(e) ==
    /\ pc = "fetch_today"
    /\ Leave(Get(new_data), store, [tick EXCEPT !.raised = "today"], FALSE, Handler(e))
    /\ UNCHANGED <<kind, clock, observers, now, fetched, arg, ret, sensor>>

\* Lines 242-247: tomorrow's fetch answers (None from the gas coordinator)
FetchTomorrowReturns(response) ==
    /\ pc = "fetch_tomorrow"
    /\ LET nd == IF kind = "gas" THEN Get(new_data)
                 ELSE [Get(new_data) EXCEPT !.tomorrow = Some(response),
                                            !.tomorrow_lastrequest = Some(now)]
       IN  Leave(nd, store, tick, TRUE, "")
    /\ UNCHANGED <<kind, clock, observers, now, fetched, arg, ret, sensor>>

\* Line 242: tomorrow's fetch raises
FetchTomorrowRaises(e) ==
    /\ pc = "fetch_tomorrow"
    /\ Leave(Get(new_data), store, [tick EXCEPT !.raised = "tomorrow"], FALSE, Handler(e))
    /\ UNCHANGED <<kind, clock, observers, now, fetched, arg, ret, sensor>>

\* Home Assistant restarts between two ticks: the coordinator is constructed
\* anew (lines 146-170) and holds no data until its first tick
Restart ==
    /\ pc = "idle"
    /\ ~IsNone(data)
    /\ data' = None
    /\ update_interval' = _get_update_interval(None)
    /\ tick' = NoTick
    /\ UNCHANGED <<kind, clock, stored, observers, pc, now, new_data, store,
                   fetched, arg, ret, sensor>>

Next ==
    \/ TickLoad
    \/ \E t \in TickTimes : TickBegin(t)
    \/ \E r \in Responses(kind, "today", now) : FetchTodayReturns(r)
    \/ \E e \in FetchErrors : FetchTodayRaises(e)
    \/ \E r \in Responses(kind, "tomorrow", now) : FetchTomorrowReturns(r)
    \/ \E e \in FetchErrors : FetchTomorrowRaises(e)
    \/ Restart

Spec == Init /\ [][Next]_vars

----------------------------------------------------------------------------
(* Saving a cached state and loading it again, on states of every shape *)

\* Largest attempt counter of a saved state
MaxAttemptValue == 2

\* Time zones a datetime can carry: UTC, the local zone, local summer time
Offsets == {0, LocalOffset, 120}

InputTimes == {DateTime(StartClock + 15 * 60 + 10, o) : o \in Offsets}

\* Price dicts: a price, and a provider whose price is absent
InputPrijs == {[EZ |-> Some(25)], [EZ |-> Some(25), FR |-> None]}

InputBatches ==
    {None, Some(<<>>)}
    \cup {Some(<<EneverData(t, p)>>) : t \in InputTimes, p \in InputPrijs}
    \cup {Some(<<EneverData(t, p), EneverData(Plus(t, 60), p)>>) :
              t \in InputTimes, p \in InputPrijs}

InputLastRequests == {None} \cup {Some(t) : t \in InputTimes}

\* datetime.__eq__ of aware datetimes: the same instant
SameTime(a, b) ==
    /\ IsNone(a) = IsNone(b)
    /\ ~IsNone(a) => Instant(Get(a)) = Instant(Get(b))

\* list.__eq__ over EneverData.__eq__
SameBatch(a, b) ==
    /\ IsNone(a) = IsNone(b)
    /\ ~IsNone(a) =>
          /\ Len(Get(a)) = Len(Get(b))
          /\ \A i \in 1..Len(Get(a)) :
                /\ Instant(Get(a)[i].datum) = Instant(Get(b)[i].datum)
                /\ Get(a)[i].prijs = Get(b)[i].prijs

\* EneverCoordinatorData.__eq__ (dataclass): every field equal
SameData(a, b) ==
    /\ SameBatch(a.today, b.today)
    /\ SameTime(a.today_lastrequest, b.today_lastrequest)
    /\ a.today_attempt = b.today_attempt
    /\ SameBatch(a.tomorrow, b.tomorrow)
    /\ SameTime(a.tomorrow_lastrequest, b.tomorrow_lastrequest)
    /\ a.tomorrow_attempt = b.tomorrow_attempt

InitReload ==
    /\ kind = "electricity"
    /\ clock = StartClock
    /\ data = None
    /\ stored = None
    /\ update_interval = _get_update_interval(None)
    /\ observers = <<>>
    /\ pc = "idle"
    /\ now = DateTime(StartClock, LocalOffset)
    /\ new_data = None
    /\ store = FALSE
    /\ tick = NoTick
    /\ fetched = [f \in Feeds |-> [day |-> DateOf(now), n |-> 0]]
    /\ \E t \in InputBatches, tl \in InputLastRequests, m \in InputBatches,
          ml \in InputLastRequests, ta \in {0, MaxAttemptValue} :
          arg = Some(EneverCoordinatorData(t, tl, ta, m, ml, MaxAttemptValue - ta))
    /\ ret = None
    /\ sensor = NoSensor

\* self.store.async_save(s.to_dict())
Save ==
    /\ IsNone(stored)
    /\ stored' = Some(to_dict(Get(arg)))
    /\ UNCHANGED <<kind, clock, data, update_interval, observers, pc, now,
                   new_data, store, tick, fetched, arg, ret, sensor>>

\* EneverCoordinatorData.from_dict(await self.store.async_load())
Load ==
    /\ ~IsNone(stored)
    /\ IsNone(ret)
    /\ ret' = Some(from_dict(stored))
    /\ UNCHANGED <<coordinator, arg, sensor>>

NextReload == Save \/ Load

SpecReload == InitReload /\ [][NextReload]_vars

----------------------------------------------------------------------------
(* The freshness predicates, on cached states and times of every shape *)

\* Calendar days the times and the cached batches are taken from
InputDays == 2

InputTimesOfDay ==
    {0, 10, 5 * 60 + 59, 6 * 60, 7 * 60, 14 * 60 + 59, 15 * 60, 23 * 60 + 59}

InputNows ==
    {DateTime(d * MinutesPerDay + t, LocalOffset) :
         d \in 1..InputDays, t \in InputTimesOfDay}

\* Batches as the API client parses them, of either coordinator
CachedBatches(k) ==
    {None, Some(<<>>)} \cup {Some(Batch(k, d)) : d \in 0..(InputDays + 1)}

CachedLastRequests == {None, Some(combine(1, 15))}

InitFreshness ==
    /\ kind \in {"gas", "electricity"}
    /\ clock = StartClock
    /\ data = None
    /\ stored = None
    /\ update_interval = _get_update_interval(None)
    /\ observers = <<>>
    /\ pc = "idle"
    /\ now = DateTime(StartClock, LocalOffset)
    /\ new_data = None
    /\ store = FALSE
    /\ tick = NoTick
    /\ fetched = [f \in Feeds |-> [day |-> DateOf(now), n |-> 0]]
    /\ \E n \in InputNows, t \in CachedBatches(kind), m \in CachedBatches(kind),
          l \in CachedLastRequests :
          arg = Some([now |-> n,
                      data |-> EneverCoordinatorData(t, l, 1, m, l, 1)])
    /\ ret = None
    /\ sensor = NoSensor

\* self._should_update_today(now, data)
ShouldUpdateToday ==
    /\ IsNone(ret)
    /\ ret' = Some([fn |-> "_should_update_today",
                    value |-> _should_update_today(kind, Get(arg).now, Get(arg).data)])
    /\ UNCHANGED <<coordinator, arg, sensor>>

\* self._should_update_tomorrow(now, data)
ShouldUpdateTomorrow ==
    /\ IsNone(ret)
    /\ ret' = Some([fn |-> "_should_update_tomorrow",
                    value |-> _should_update_tomorrow(kind, Get(arg).now, Get(arg).data)])
    /\ UNCHANGED <<coordinator, arg, sensor>>

NextFreshness == ShouldUpdateToday \/ ShouldUpdateTomorrow

SpecFreshness == InitFreshness /\ [][NextFreshness]_vars

\* The call of _should_update_today that returned, on coordinator k
Returned(k, fn) ==
    IF IsNone(ret) THEN FALSE ELSE kind = k /\ Get(ret).fn = fn

FirstDatum(batch) == Get(batch)[1].datum

----------------------------------------------------------------------------
(* Observers that come and go while the coordinator ticks *)

\* The ticks of one day
OneDayTickTimes == {StartClock + t : t \in TickTimesOfDay}

\* A coordinator just constructed over an empty store: no observers yet
InitObservers ==
    /\ kind \in {"gas", "electricity"}
    /\ clock = StartClock
    /\ data = None
    /\ stored = None
    /\ update_interval = _get_update_interval(None)
    /\ observers = <<>>
    /\ pc = "idle"
    /\ now = DateTime(StartClock, LocalOffset)
    /\ new_data = None
    /\ store = FALSE
    /\ tick = NoTick
    /\ fetched = [f \in Feeds |-> [day |-> DateOf(now), n |-> 0]]
    /\ arg = None
    /\ ret = None
    /\ sensor = NoSensor

\* coordinator.attach(observer), called once for an observer when it is
\* added (sensor.py, async_added_to_hass)
Attach(observer) ==
    /\ ~Attached(observers, observer)
    /\ observers' = attach(observers, observer)
    /\ ret' = Some([fn |-> "attach", observer |-> observer,
                    attached |-> FALSE, before |-> observers, value |-> "None"])
    /\ UNCHANGED <<kind, clock, data, stored, update_interval, pc, now,
                   new_data, store, tick, fetched, arg, sensor>>

\* coordinator.detach(observer): list.remove raises ValueError when the list
\* does not hold the observer
Detach(observer) ==
    /\ observers' = IF Attached(observers, observer)
                    THEN detach(observers, observer) ELSE observers
    /\ ret' = Some([fn |-> "detach", observer |-> observer,
                    attached |-> Attached(observers, observer),
                    before |-> observers,
                    value |-> IF Attached(observers, observer) THEN "None"
                              ELSE "ValueError"])
    /\ UNCHANGED <<kind, clock, data, stored, update_interval, pc, now,
                   new_data, store, tick, fetched, arg, sensor>>

NextObservers ==
    \/ TickLoad
    \/ \E t \in OneDayTickTimes : TickBegin(t)
    \/ \E r \in Responses(kind, "today", now) : FetchTodayReturns(r)
    \/ \E e \in FetchErrors : FetchTodayRaises(e)
    \/ \E r \in Responses(kind, "tomorrow", now) : FetchTomorrowReturns(r)
    \/ \E e \in FetchErrors : FetchTomorrowRaises(e)
    \/ \E o \in Observers : Attach(o)
    \/ \E o \in Observers : Detach(o)

SpecObservers == InitObservers /\ [][NextObservers]_vars

\* The call of attach or detach that returned last
Called(fn) == IF IsNone(ret) THEN FALSE ELSE Get(ret).fn = fn

\* The step on which the coordinator issues the fetch of a feed
Issues(f) ==
    IF f = "today" THEN pc # "fetch_today" /\ pc' = "fetch_today"
    ELSE pc # "fetch_tomorrow" /\ pc' = "fetch_tomorrow"

----------------------------------------------------------------------------
(* The config entry is unloaded or reloaded while a fetch is awaited *)

\* The task that runs the tick is cancelled: CancelledError is raised at the
\* await of the fetch, no except clause handles it (it is no Exception), the
\* finally clause runs and the tick does not return.  The coordinator is
\* dropped; the one constructed on the next setup holds no data.
Cancel ==
    /\ pc \in {"fetch_today", "fetch_tomorrow"}
    /\ Handler("CancelledError") = ""
    /\ stored' = IF store THEN Some(to_dict(Get(new_data))) ELSE stored
    /\ data' = None
    /\ update_interval' = _get_update_interval(None)
    /\ pc' = "idle"
    /\ new_data' = None
    /\ store' = FALSE
    /\ tick' = [tick EXCEPT !.result = "cancelled", !.saved = store]
    /\ UNCHANGED <<kind, clock, observers, now, fetched, arg, ret, sensor>>

NextTeardown ==
    \/ TickLoad
    \/ \E t \in OneDayTickTimes : TickBegin(t)
    \/ \E r \in Responses(kind, "today", now) : FetchTodayReturns(r)
    \/ \E e \in FetchErrors : FetchTodayRaises(e)
    \/ \E r \in Responses(kind, "tomorrow", now) : FetchTomorrowReturns(r)
    \/ \E e \in FetchErrors : FetchTomorrowRaises(e)
    \/ Cancel

SpecTeardown == Init /\ [][NextTeardown]_vars

----------------------------------------------------------------------------
(* The resolution is switched while the coordinator runs *)

\* Most reconfigurations of the entry
MaxSwitches == 2

\* The config entry and the store: the entry's resolution, the key of the
\* coordinator's Store object, the files under the other keys and the number
\* of reconfigurations so far.  The file under the Store's own key is `stored`.
Entry(resolution, key, files, switches) ==
    [resolution |-> resolution, key |-> key, files |-> files,
     switches |-> switches]

\* All the store files
Files == (Get(arg).key :> stored) @@ Get(arg).files

\* A coordinator just constructed for an entry of either resolution, over no
\* store files
InitIsolation ==
    /\ kind \in {"gas", "electricity"}
    /\ clock = StartClock
    /\ data = None
    /\ stored = None
    /\ update_interval = _get_update_interval(None)
    /\ observers = <<"api_requests">>
    /\ pc = "idle"
    /\ now = DateTime(StartClock, LocalOffset)
    /\ new_data = None
    /\ store = FALSE
    /\ tick = NoTick
    /\ fetched = [f \in Feeds |-> [day |-> DateOf(now), n |-> 0]]
    /\ \E r \in Resolutions : arg = Some(Entry(r, StoreKey(kind, r), <<>>, 0))
    /\ ret = None
    /\ sensor = NoSensor

\* async_step_reconfigure with user input: the entry's data is updated and
\* the entry reloaded, so the coordinator is constructed anew (lines 146-170)
\* with a Store under the key of the new resolution
Reconfigure(resolution) ==
    /\ pc = "idle"
    /\ Get(arg).switches < MaxSwitches
    /\ LET key == StoreKey(kind, resolution)
       IN  /\ arg' = Some(Entry(resolution, key, Files, Get(arg).switches + 1))
           /\ stored' = FileAt(Files, key)
    /\ data' = None
    /\ update_interval' = _get_update_interval(None)
    /\ tick' = NoTick
    /\ ret' = Some([fn |-> "async_step_reconfigure",
                    from |-> Get(arg).resolution, to |-> resolution,
                    left |-> stored])
    /\ UNCHANGED <<kind, clock, observers, pc, now, new_data, store, fetched,
                   sensor>>

NextIsolation ==
    \/ TickLoad
    \/ \E t \in OneDayTickTimes : TickBegin(t)
    \/ \E r \in Responses(kind, "today", now) : FetchTodayReturns(r)
    \/ \E e \in FetchErrors : FetchTodayRaises(e)
    \/ \E r \in Responses(kind, "tomorrow", now) : FetchTomorrowReturns(r)
    \/ \E e \in FetchErrors : FetchTomorrowRaises(e)
    \/ \E r \in Resolutions : Reconfigure(r)

SpecIsolation == InitIsolation /\ [][NextIsolation]_vars

----------------------------------------------------------------------------
(* The API fails for a while and then answers every request *)

\* The remote API: the requests of the ticks up to `failing_until` can fail,
\* every later request is answered
Api(failing_until) == [failing_until |-> failing_until]

\* The API answers every request from now on
Healthy == clock >= Get(arg).failing_until

InitRecovery ==
    /\ kind \in {"gas", "electricity"}
    /\ clock = StartClock
    /\ data = None
    /\ stored \in InitialStores(kind)
    /\ update_interval = _get_update_interval(None)
    /\ observers = <<"api_requests">>
    /\ pc = "idle"
    /\ now = DateTime(StartClock, LocalOffset)
    /\ new_data = None
    /\ store = FALSE
    /\ tick = NoTick
    /\ fetched = [f \in Feeds |-> [day |-> DateOf(now), n |-> 0]]
    /\ arg \in {Some(Api(t)) : t \in OneDayTickTimes}
    /\ ret = None
    /\ sensor = NoSensor

\* Ticks continue: the update coordinator schedules the next tick when one
\* has returned, so no tick time is left out
NextTickTime == CHOOSE t \in TickTimes : t > clock /\ \A u \in TickTimes : u > clock => t <= u

TickNext == (\E t \in TickTimes : t > clock) /\ TickBegin(NextTickTime)

FetchAnswers ==
    \/ \E r \in Responses(kind, "today", now) : FetchTodayReturns(r)
    \/ \E r \in Responses(kind, "tomorrow", now) : FetchTomorrowReturns(r)

\* One error for each except clause of the tick
ClauseErrors == {"EneverInvalidToken", "EneverCannotConnect", "ValueError"}

FetchFails ==
    \/ \E e \in ClauseErrors : FetchTodayRaises(e)
    \/ \E e \in ClauseErrors : FetchTomorrowRaises(e)

NextRecovery ==
    \/ TickLoad
    \/ TickNext
    \/ FetchAnswers
    \/ clock <= Get(arg).failing_until /\ FetchFails

\* Every tick that is due happens and every request is answered or fails
SpecRecovery ==
    /\ InitRecovery
    /\ [][NextRecovery]_vars
    /\ WF_vars(TickLoad)
    /\ WF_vars(TickNext)
    /\ WF_vars(FetchAnswers)

----------------------------------------------------------------------------
(* The entities read the coordinator's state while it ticks (entity.py) *)

\* EneverHourlyEntity._handle_hour_change: the time change listener fires at
\* minute 0 of an hour, whatever the coordinator is doing, and hands
\* self.coordinator.data to the entity, which reads it
HandleHourChange ==
    /\ ~IsNone(data)
    /\ MinuteOf(DateTime(clock, LocalOffset)) = 0
    /\ ret' = Some([fn |-> "_handle_hour_change", data |-> Get(data),
                    suspended |-> pc # "idle", now |-> clock])
    /\ UNCHANGED <<coordinator, arg, sensor>>

NextVisibility ==
    \/ TickLoad
    \/ \E t \in OneDayTickTimes : TickBegin(t)
    \/ \E r \in Responses(kind, "today", now) : FetchTodayReturns(r)
    \/ \E e \in FetchErrors : FetchTodayRaises(e)
    \/ \E r \in Responses(kind, "tomorrow", now) : FetchTomorrowReturns(r)
    \/ \E e \in FetchErrors : FetchTomorrowRaises(e)
    \/ HandleHourChange

SpecVisibility == Init /\ [][NextVisibility]_vars

----------------------------------------------------------------------------
(* The price sensors over published states and times of every shape *)

\* Calendar days the sensors are refreshed on
PriceDays == 2

\* Times of day a refresh can happen at: around the start and the end of a
\* gas batch's validity, and around midnight and noon for electricity
PriceTimesOfDay(k) ==
    IF k = "gas" THEN {3 * 60, 4 * 60, 6 * 60, 6 * 60 + 1, 7 * 60}
    ELSE {0, 10, 12 * 60, 23 * 60 + 59}

PriceTimes(k) ==
    {d * MinutesPerDay + t : d \in 1..PriceDays, t \in PriceTimesOfDay(k)}

\* The sensor's provider
Provider == "EZ"

\* item.prijs of a quote whose price for the sensor's provider is p (None:
\* the item names other providers only)
PrijsOf(p) ==
    IF IsNone(p) THEN [ZP |-> Some(9)] ELSE [EZ |-> p, ZP |-> Some(9)]

\* The prices a feed's batch of day d can quote: none, a negative one, zero,
\* and prices that tell the day and the feed
PriceLists(k, feed, d) ==
    LET base == IF feed = "today" THEN 10 ELSE 50
    IN  IF k = "gas"
        THEN {<<None>>, <<Some(-1)>>, <<Some(0)>>, <<Some(base + d)>>}
        ELSE {<<Some(base + d), Some(base + 20 + d)>>, <<None, Some(-1)>>}

PricedBatch(k, d, prices) ==
    [i \in 1..Len(BatchHours(k)) |->
        EneverData(combine(d, BatchHours(k)[i]), PrijsOf(prices[i]))]

\* The batches a feed of coordinator k can hold; the gas coordinator never
\* fetches tomorrow's
PublishedBatches(k, feed) ==
    IF k = "gas" /\ feed = "tomorrow" THEN {None}
    ELSE {None, Some(<<>>)} \cup
         UNION {{Some(PricedBatch(k, d, p)) : p \in PriceLists(k, feed, d)} :
                   d \in 0..PriceDays}

PublishedStates(k) ==
    {EneverCoordinatorData(t, Some(combine(0, 15)), 0, m, None, 0) :
         t \in PublishedBatches(k, "today"),
         m \in PublishedBatches(k, "tomorrow")}

\* EneverGasSensorEntity / EneverElectricitySensorEntity
\* ._handle_enever_coordinator_update
_handle_enever_coordinator_update(k, self, d, n) ==
    IF k = "gas" THEN Gas_handle_enever_coordinator_update(self, d, n)
    ELSE Electricity_handle_enever_coordinator_update(self, d, n)

InitPrices ==
    /\ kind \in {"gas", "electricity"}
    /\ clock = StartClock
    /\ data = None
    /\ stored = None
    /\ update_interval = _get_update_interval(None)
    /\ observers = <<>>
    /\ pc = "idle"
    /\ now = DateTime(StartClock, LocalOffset)
    /\ new_data = None
    /\ store = FALSE
    /\ tick = NoTick
    /\ fetched = [f \in Feeds |-> [day |-> DateOf(now), n |-> 0]]
    /\ arg = None
    /\ ret = None
    /\ sensor = PriceSensor(Provider)

\* EneverEntity._handle_coordinator_update: the coordinator has published
\* the state d at time t; the entity empties its attributes and reads the
\* state with now = dt_util.now()
_handle_coordinator_update(d, t) ==
    /\ t >= clock
    /\ clock' = t
    /\ data' = Some(d)
    /\ sensor' = _handle_enever_coordinator_update(
                     kind, [sensor EXCEPT !.attrs = <<>>], d,
                     DateTime(t, LocalOffset))
    /\ ret' = Some([fn |-> "_handle_coordinator_update"])
    /\ UNCHANGED <<kind, stored, update_interval, observers, pc, now,
                   new_data, store, tick, fetched, arg>>

\* EneverHourlyEntity._handle_hour_change: the listener fires at minute 0 of
\* an hour with the time it fired at
_handle_hour_change(t) ==
    /\ ~IsNone(data)
    /\ t > clock
    /\ MinuteOf(DateTime(t, LocalOffset)) = 0
    /\ clock' = t
    /\ sensor' = _handle_enever_coordinator_update(
                     kind, [sensor EXCEPT !.attrs = <<>>], Get(data),
                     DateTime(t, LocalOffset))
    /\ ret' = Some([fn |-> "_handle_hour_change"])
    /\ UNCHANGED <<kind, data, stored, update_interval, observers, pc, now,
                   new_data, store, tick, fetched, arg>>

NextPrices ==
    \/ \E d \in PublishedStates(kind), t \in PriceTimes(kind) :
           _handle_coordinator_update(d, t)
    \/ \E t \in PriceTimes(kind) : _handle_hour_change(t)

SpecPrices == InitPrices /\ [][NextPrices]_vars

----------------------------------------------------------------------------
(* The config entry is migrated when it is set up (__init__.py) *)

\* EneverConfigFlow.VERSION, EneverConfigFlow.MINOR_VERSION
VERSION == 1
MINOR_VERSION == 4

\* Set-ups of the entry that are explored
MaxSetups == 3

\* {**data, key: value}
Put(dict, key, value) == (key :> value) @@ dict

\* A config entry; data is a dict keyed by the names of the constants
ConfigEntry(version, minor_version, entry_data) ==
    [version |-> version, minor_version |-> minor_version, data |-> entry_data]

\* Mutant: the migrated entry is stored at the flow's minor version
async_update_entry_Current(entry, data_) ==
    ConfigEntry(1, MINOR_VERSION, data_)

\* hass.config_entries.async_update_entry(entry, data=new_data,
\*                                        minor_version=3, version=1)
async_update_entry(entry, data_) == ConfigEntry(1, 3, data_)

\* async_migrate_entry: the entry it leaves
async_migrate_entry(entry) ==
    LET adds_counter == entry.version = 1 /\ entry.minor_version < 2
        adds_resolution == entry.version = 1 /\ entry.minor_version < 4
        with_counter ==
            IF adds_counter
            THEN Put(entry.data, "CONF_ENTITY_APICOUNTER_ENABLED", FALSE)
            ELSE entry.data
        v2 == IF "CONF_OBSOLETE_API_VERSION" \in DOMAIN with_counter
              THEN with_counter["CONF_OBSOLETE_API_VERSION"] = "v2"
              ELSE FALSE
        with_resolution ==
            IF adds_resolution
            THEN Put(with_counter, "CONF_RESOLUTION",
                     IF v2 THEN "15" ELSE "60")
            ELSE with_counter
        changed == adds_counter \/ adds_resolution
    IN  IF changed THEN async_update_entry(entry, with_resolution) ELSE entry

\* The data of entries that releases 1.1 to 1.3 have written: the counter
\* flag since 1.2, and the API version of the development builds of 1.2
OldEntries ==
    {ConfigEntry(1, 1, [CONF_API_TOKEN |-> "token"])} \cup
    {ConfigEntry(1, m, [CONF_API_TOKEN |-> "token",
                        CONF_ENTITY_APICOUNTER_ENABLED |-> c]) :
         m \in {2, 3}, c \in BOOLEAN} \cup
    {ConfigEntry(1, m, [CONF_API_TOKEN |-> "token",
                        CONF_ENTITY_APICOUNTER_ENABLED |-> c,
                        CONF_OBSOLETE_API_VERSION |-> v]) :
         m \in {2, 3}, c \in BOOLEAN, v \in {"v1", "v2"}}

\* async_step_user: self.async_create_entry(title="Enever", data=user_input)
\* at the flow's version
NewEntries ==
    {ConfigEntry(VERSION, MINOR_VERSION,
                 [CONF_API_TOKEN |-> "token",
                  CONF_ENTITY_APICOUNTER_ENABLED |-> c,
                  CONF_RESOLUTION |-> r]) :
         c \in BOOLEAN, r \in Resolutions}

\* The host's view of the entry: how often it was set up, whether
\* async_migrate_entry has run on it, and the resolution the user chose last
Installed(entry, setups, migrated, chosen) ==
    [entry |-> entry, setups |-> setups, migrated |-> migrated,
     chosen |-> chosen]

InitMigration ==
    /\ kind = "electricity"
    /\ clock = StartClock
    /\ data = None
    /\ stored = None
    /\ update_interval = _get_update_interval(None)
    /\ observers = <<>>
    /\ pc = "idle"
    /\ now = DateTime(StartClock, LocalOffset)
    /\ new_data = None
    /\ store = FALSE
    /\ tick = NoTick
    /\ fetched = [f \in Feeds |-> [day |-> DateOf(now), n |-> 0]]
    /\ arg \in {Some(Installed(e, 0, FALSE, None)) :
                    e \in OldEntries \cup NewEntries}
    /\ ret = None
    /\ sensor = NoSensor

\* The host sets the entry up (at start-up and on every reload): an entry
\* that is not at the flow's version is first handed to async_migrate_entry
SetupMigrates ==
    LET entry == Get(arg).entry
    IN  /\ Get(arg).setups < MaxSetups
        /\ <<entry.version, entry.minor_version>> # <<VERSION, MINOR_VERSION>>
        /\ arg' = Some(Installed(async_migrate_entry(entry),
                                 Get(arg).setups + 1, TRUE, Get(arg).chosen))
        /\ ret' = Some([fn |-> "async_migrate_entry", entry |-> entry])
        /\ UNCHANGED <<coordinator, sensor>>

\* The host sets up an entry that is at the flow's version
SetupCurrent ==
    LET entry == Get(arg).entry
    IN  /\ Get(arg).setups < MaxSetups
        /\ <<entry.version, entry.minor_version>> = <<VERSION, MINOR_VERSION>>
        /\ arg' = Some([Get(arg) EXCEPT !.setups = @ + 1])
        /\ ret' = Some([fn |-> "async_setup_entry", entry |-> entry])
        /\ UNCHANGED <<coordinator, sensor>>

\* async_step_reconfigure with user input: data_updates=user_input, on an
\* entry that has been set up
StepReconfigure(resolution) ==
    LET entry == Get(arg).entry
    IN  /\ Get(arg).setups > 0
        /\ IsNone(Get(arg).chosen) \/ Get(arg).chosen # Some(resolution)
        /\ arg' = Some([Get(arg) EXCEPT
                           !.entry.data = Put(@, "CONF_RESOLUTION", resolution),
                           !.chosen = Some(resolution)])
        /\ ret' = Some([fn |-> "async_step_reconfigure", entry |-> entry])
        /\ UNCHANGED <<coordinator, sensor>>

NextMigration ==
    \/ SetupMigrates
    \/ SetupCurrent
    \/ \E r \in Resolutions : StepReconfigure(r)

SpecMigration == InitMigration /\ [][NextMigration]_vars

----------------------------------------------------------------------------
(* The API client and the configuration flow, on raw outcomes of every shape *)

Statuses == {200, 401, 500}

\* Items of a data list: a datum in UTC, one in the local zone with a
\* provider whose price is null, and one whose datum is no datetime
RawItems ==
    [good |-> [datum |-> Some(isoformat(DateTime(StartClock, 0))),
               prijs |-> [EZ |-> Some(25)]],
     null |-> [datum |-> Some(isoformat(combine(1, 1))),
               prijs |-> [EZ |-> Some(25), FR |-> None]],
     bad  |-> [datum |-> None, prijs |-> [EZ |-> Some(25)]]]

DataValues ==
    {JsonList(<<>>), JsonList(<<RawItems.good, RawItems.null>>),
     JsonList(<<RawItems.good, RawItems.bad>>),
     JsonStr("Token invalid"), JsonNull}

\* JSON objects with or without a data element and a code
Payloads ==
    {d @@ c : d \in {<<>>} \cup {[data |-> v] : v \in DataValues},
              c \in {<<>>, [code |-> "2"], [code |-> "5"]}}

Bodies == {[json |-> FALSE]} \cup {[json |-> TRUE, payload |-> p] : p \in Payloads}

RawOutcomes ==
    {RawFailure(e) : e \in {"TimeoutException", "ConnectError"}}
    \cup {RawResponse(status, b) : status \in Statuses, b \in Bodies}

InitApi ==
    /\ kind = "gas"
    /\ clock = StartClock
    /\ data = None
    /\ stored = None
    /\ update_interval = _get_update_interval(None)
    /\ observers = <<>>
    /\ pc = "idle"
    /\ now = DateTime(StartClock, LocalOffset)
    /\ new_data = None
    /\ store = FALSE
    /\ tick = NoTick
    /\ fetched = [f \in Feeds |-> [day |-> DateOf(now), n |-> 0]]
    /\ arg \in {Some(raw) : raw \in RawOutcomes}
    /\ ret = None
    /\ sensor = NoSensor

\* await self._fetch_parsed(endpoint)
FetchParsed ==
    /\ IsNone(ret)
    /\ ret' = Some([fn |-> "_fetch_parsed", value |-> _fetch_parsed(Get(arg))])
    /\ UNCHANGED <<coordinator, arg, sensor>>

\* The configuration flow's user step, with user input
AsyncStepUser ==
    /\ IsNone(ret)
    /\ ret' = Some([fn |-> "async_step_user",
                    value |-> async_step_user(Get(arg)),
                    validated |-> validate_token(Get(arg))])
    /\ UNCHANGED <<coordinator, arg, sensor>>

NextApi == FetchParsed \/ AsyncStepUser

SpecApi == InitApi /\ [][NextApi]_vars

\* The call ended with an exception of exactly this class
Raises(result, error) ==
    IF result.kind = "raise" THEN result.error = error ELSE FALSE

\* A response with status 200 and a JSON object as its body
Ok200(raw) ==
    IF raw.transport = "ok"
    THEN raw.status_code = 200 /\ IsJson(raw.body) ELSE FALSE

\* The payload's code, None when it has none
CodeOf(raw) ==
    IF "code" \in DOMAIN raw.body.payload THEN Some(raw.body.payload.code)
    ELSE None

----------------------------------------------------------------------------
(* The average, on days of every shape *)

\* Longest day, in quotes
MaxQuotes == 3

\* A provider's price of one quote: absent, negative or positive
InputPrices == {None, Some(-1), Some(1), Some(3)}

\* _get_provider_data(data): an absent day, or one item per quote
InputDayPrices ==
    {None} \cup
    UNION {{Some([i \in 1..n |-> [time |-> combine(1, i - 1),
                                  price |-> prices[i]]]) :
                prices \in [1..n -> InputPrices]} : n \in 0..MaxQuotes}

InitAverage ==
    /\ kind = "electricity"
    /\ clock = StartClock
    /\ data = None
    /\ stored = None
    /\ update_interval = _get_update_interval(None)
    /\ observers = <<>>
    /\ pc = "idle"
    /\ now = DateTime(StartClock, LocalOffset)
    /\ new_data = None
    /\ store = FALSE
    /\ tick = NoTick
    /\ fetched = [f \in Feeds |-> [day |-> DateOf(now), n |-> 0]]
    /\ arg \in {Some([data |-> d]) : d \in InputDayPrices}
    /\ ret = None
    /\ sensor = NoSensor

\* self._calculate_average_price(data_today)
CalculateAveragePrice ==
    /\ IsNone(ret)
    /\ ret' = Some([fn |-> "_calculate_average_price",
                    value |-> _calculate_average_price(Get(arg).data)])
    /\ UNCHANGED <<coordinator, arg, sensor>>

NextAverage == CalculateAveragePrice

SpecAverage == InitAverage /\ [][NextAverage]_vars

\* The quotes of a day that have a price, and the sum of the prices of a
\* set of quotes
Priced(day) == {i \in 1..Len(day) : ~IsNone(day[i].price)}

RECURSIVE Total(_, _)
Total(day, quotes) ==
    IF quotes = {} THEN 0
    ELSE LET i == CHOOSE q \in quotes : TRUE
         IN  Get(day[i].price) + Total(day, quotes \ {i})

----------------------------------------------------------------------------
(* The request count sensor over the end of a month *)

\* Days explored after the first one
CounterDays == 3

\* Most requests counted in a month
MaxRequests == 3

\* The first day explored: the last day but one of the second month
CounterStart == (2 * DaysInMonth - 2) * MinutesPerDay

\* Midnight and ten past midnight of every day explored
CounterTimes ==
    {CounterStart + d * MinutesPerDay + t : d \in 0..CounterDays, t \in {0, 10}}

\* What the state machine holds of the sensor when Home Assistant starts:
\* nothing, a count of this month, a count of the month before, or a state
\* that is no number
LastStates ==
    {None,
     Some([state |-> StateOf(Some(2)),
           month |-> Some(date_isoformat(replace_day_1(DateOf(DateTime(CounterStart, LocalOffset)))))]),
     Some([state |-> StateOf(Some(2)), month |-> Some(date_isoformat(0))]),
     Some([state |-> StateOf(None),
           month |-> Some(date_isoformat(replace_day_1(DateOf(DateTime(CounterStart, LocalOffset)))))]),
     Some([state |-> StateOf(Some(2)), month |-> None])}

InitCounter ==
    /\ kind = "gas"
    /\ clock = CounterStart
    /\ data = None
    /\ stored = None
    /\ update_interval = _get_update_interval(None)
    /\ observers = <<>>
    /\ pc = "idle"
    /\ now = DateTime(CounterStart, LocalOffset)
    /\ new_data = None
    /\ store = FALSE
    /\ tick = NoTick
    /\ fetched = [f \in Feeds |-> [day |-> DateOf(now), n |-> 0]]
    /\ arg = None
    /\ ret = None
    /\ sensor \in {NewSensor(written) : written \in LastStates}

\* What a call of the sensor leaves in ret: the sensor before the call and
\* the time of the call
SensorCall(fn) == Some([fn |-> fn, before |-> sensor, now |-> now'])

\* The entity is added, at the time the clock shows
AddedToHass ==
    /\ ~sensor.added
    /\ now' = DateTime(clock, LocalOffset)
    /\ sensor' = async_added_to_hass(sensor, now')
    /\ observers' = attach(observers, "api_requests")
    /\ ret' = SensorCall("async_added_to_hass")
    /\ UNCHANGED <<kind, clock, data, stored, update_interval, pc, new_data,
                   store, tick, fetched, arg>>

\* The entity is removed (Home Assistant stops or the entry is unloaded); the
\* next entity is a new object and finds the last state written
WillRemoveFromHass ==
    /\ sensor.added
    /\ now' = DateTime(clock, LocalOffset)
    /\ sensor' = NewSensor(sensor.written)
    /\ observers' = detach(observers, "api_requests")
    /\ ret' = SensorCall("async_will_remove_from_hass")
    /\ UNCHANGED <<kind, clock, data, stored, update_interval, pc, new_data,
                   store, tick, fetched, arg>>

\* A coordinator notifies the sensor at time t
CountApiRequest(t) ==
    /\ sensor.added
    /\ t >= clock
    /\ clock' = t
    /\ now' = DateTime(t, LocalOffset)
    /\ Get(_reset_month(sensor, now').native_value) < MaxRequests
    /\ sensor' = count_api_request(sensor, now')
    /\ ret' = SensorCall("count_api_request")
    /\ UNCHANGED <<kind, data, stored, update_interval, observers, pc,
                   new_data, store, tick, fetched, arg>>

\* The time change listener fires at midnight t
HandleDayChange(t) ==
    /\ sensor.added
    /\ t > clock
    /\ t % MinutesPerDay = 0
    /\ clock' = t
    /\ now' = DateTime(t, LocalOffset)
    /\ sensor' = _handle_day_change(sensor, now')
    /\ ret' = SensorCall("_handle_day_change")
    /\ UNCHANGED <<kind, data, stored, update_interval, observers, pc,
                   new_data, store, tick, fetched, arg>>

NextCounter ==
    \/ AddedToHass
    \/ WillRemoveFromHass
    \/ \E t \in CounterTimes : CountApiRequest(t)
    \/ \E t \in CounterTimes : HandleDayChange(t)

SpecCounter == InitCounter /\ [][NextCounter]_vars

\* The month a month attribute names, and whether it names its first day
TagMonth(tag) ==
    IF tag.type = "date" THEN tag.date \div DaysInMonth ELSE tag.text.month
TagIsFirstDay(tag) ==
    IF tag.type = "date" THEN tag.date % DaysInMonth = 0 ELSE tag.text.day = 1

\* The counter as a number
CounterOf(self) == IF IsNone(self.native_value) THEN 0 ELSE Get(self.native_value)

----------------------------------------------------------------------------
(* Reading one feed's fields of a cached state *)

BatchOf(d, f) == IF f = "today" THEN d.today ELSE d.tomorrow
LastRequestOf(d, f) ==
    IF f = "today" THEN d.today_lastrequest ELSE d.tomorrow_lastrequest
AttemptOf(d, f) == IF f = "today" THEN d.today_attempt ELSE d.tomorrow_attempt

\* The step that ends a tick of the update kind
TickEnds == tick.result = "running" /\ tick'.result # "running"
TickEnded == tick.kind = "update" /\ tick.result # "running"

\* The feeds a coordinator fetches: gas has no feed for tomorrow
FeedsOf(k) == IF k = "gas" THEN {"today"} ELSE Feeds

\* Fetch attempts of this coordinator on calendar day d
DayFetches(d) ==
    (IF fetched["today"].day = d THEN fetched["today"].n ELSE 0)
    + (IF fetched["tomorrow"].day = d THEN fetched["tomorrow"].n ELSE 0)

\* The freshness predicate of a feed, at the time of the last tick
ShouldUpdate(f) ==
    IF f = "today" THEN _should_update_today(kind, DateTime(clock, LocalOffset), Get(data))
    ELSE _should_update_tomorrow(kind, DateTime(clock, LocalOffset), Get(data))

\* The last tick fetched the feed and stored the answer
Fetched(f) ==
    /\ TickEnded
    /\ tick.attempted[f]
    /\ tick.raised # f
    /\ LastRequestOf(Get(data), f) = Some(now)

\* The gate of a feed is closed by the daily cap
Capped(d, f) ==
    IF IsNone(LastRequestOf(d, f)) THEN FALSE
    ELSE AttemptOf(d, f) >= MAX_ATTEMPTS_COUNT

\* The step on which a tick past the load begins, and the new state it has
\* built by the end of that step (returned already when it fetches nothing)
TickBegins == ~IsNone(data) /\ pc = "idle" /\ clock' # clock
BegunState == IF pc' = "idle" THEN Get(data') ELSE Get(new_data')

\* The feed's last-request timestamp is present and of another day than n
OtherDay(d, f, n) ==
    IF IsNone(LastRequestOf(d, f)) THEN FALSE
    ELSE DateOf(Get(LastRequestOf(d, f))) # DateOf(n)

\* The state a tick works on: new_data while it runs, self.data between ticks
WorkingState == IF pc = "idle" THEN Get(data) ELSE Get(new_data)

\* The three fields a feed has in a cached state
FeedFields(d, f) == <<BatchOf(d, f), LastRequestOf(d, f), AttemptOf(d, f)>>

\* The gate of a feed at n, read off that feed's own fields of the state the
\* tick found: open with no last request, else when the interval has passed
\* and the attempts of today are below the maximum
OwnGate(k, d, f, n) ==
    IF IsNone(LastRequestOf(d, f)) THEN TRUE
    ELSE /\ ~Throttled(k, n, LastRequestOf(d, f))
         /\ (IF OtherDay(d, f, n) THEN 0 ELSE AttemptOf(d, f)) < MAX_ATTEMPTS_COUNT

----------------------------------------------------------------------------
(* Properties *)

\* C1 - Daily cap: within one calendar day the fetch attempts made for a feed
\* never exceed MAX_ATTEMPTS_COUNT, whatever mix of fetches succeeds or fails
\* and whatever state was loaded.
C1_DailyCap == \A f \in Feeds : fetched[f].n <= MAX_ATTEMPTS_COUNT

\* C2 - Throttle: on a tick where a feed has a last-request timestamp closer
\* to now than the feed's minimum interval, no fetch is attempted for that
\* feed, whatever the freshness predicate says.
C2_Throttle ==
    tick.kind = "update" =>
        \A f \in Feeds : tick.throttled[f] => ~tick.attempted[f]

\* A finished tick that found today's feed throttled while its freshness
\* predicate was true (today's fields are as the tick found them)
C2_Witness ==
    /\ TickEnded
    /\ tick.throttled["today"]
    /\ ~tick.attempted["today"]
    /\ _should_update_today(kind, now, Get(data))

\* C3 - Non-destructive failure: when the fetch of a feed raises, the state
\* the tick returns and the record it writes keep that feed's cached batch and
\* last-request timestamp as they were before the tick.
C3_NonDestructiveFailure ==
    [][\A f \in Feeds :
          (TickEnds /\ tick'.raised = f) =>
              /\ ~IsNone(data')
              /\ BatchOf(Get(data'), f) = BatchOf(Get(data), f)
              /\ LastRequestOf(Get(data'), f) = LastRequestOf(Get(data), f)
              /\ tick'.saved
              /\ BatchOf(Get(stored'), f) = _data_to_dict(BatchOf(Get(data), f))
              /\ LastRequestOf(Get(stored'), f)
                     = _datetime_to_str(LastRequestOf(Get(data), f))]_vars

\* A tick whose fetch raised over a cached batch
C3_Witness ==
    /\ TickEnded
    /\ tick.raised = "today"
    /\ ~NoBatch(Get(data).today)
    /\ ~IsNone(Get(data).today_lastrequest)

\* C4 - Independence: in a tick where both feeds are eligible, a failure of
\* today's fetch does not keep tomorrow's fetch from being attempted.
C4_Independence ==
    (TickEnded /\ tick.raised = "today" /\ tick.eligible["tomorrow"])
        => tick.attempted["tomorrow"]

\* C5 - No fetch error escapes a tick: whatever a fetch raises, the tick
\* returns a state and the coordinator goes on.
C5_NoErrorEscapes ==
    (TickEnded /\ tick.raised # "none") =>
        /\ tick.result = "returned"
        /\ pc = "idle"
        /\ ~IsNone(data)

\* A tick that returned after its fetch raised an error only the last except
\* clause handles
C5_Witness ==
    /\ TickEnded
    /\ tick.raised # "none"
    /\ tick.result = "returned"
    /\ tick.log = "Error while fetching data"

\* C6 - Quota bound: the two coordinators make at most 6 fetches per calendar
\* day, 2 for each of electricity today, electricity tomorrow and gas today.
\* Stated of each coordinator's share of the 6: 2 fetches a day for the gas
\* coordinator, 4 for the electricity coordinator.
C6_QuotaBound ==
    \A f \in Feeds :
        DayFetches(fetched[f].day) <= MAX_ATTEMPTS_COUNT * Cardinality(FeedsOf(kind))

\* C8 - The first tick is load-only: with no state in memory the tick returns
\* the stored record (the empty state when there is none), fetches nothing,
\* notifies nobody, counts no attempt and writes nothing.
C8_FirstTickLoadOnly ==
    [][IsNone(data) =>
          /\ pc' = "idle"
          /\ stored' = stored
          /\ fetched' = fetched
          /\ tick'.kind = "load"
          /\ tick'.notified = 0
          /\ ~IsNone(data')
          /\ \A f \in Feeds :
                /\ ~tick'.attempted[f]
                /\ AttemptOf(Get(data'), f) =
                       IF IsNone(stored) THEN 0
                       ELSE GetAttempt(Get(stored), IF f = "today" THEN "today_attempt"
                                                    ELSE "tomorrow_attempt")
                /\ IsNone(stored) =>
                       /\ IsNone(BatchOf(Get(data'), f))
                       /\ IsNone(LastRequestOf(Get(data'), f))
                /\ ~IsNone(stored) =>
                       /\ _data_to_dict(BatchOf(Get(data'), f)) = BatchOf(Get(stored), f)
                       /\ _datetime_to_str(LastRequestOf(Get(data'), f))
                              = LastRequestOf(Get(stored), f)]_vars

\* The first tick after a restart has loaded a record an earlier tick saved
C8_Witness ==
    /\ tick.kind = "load"
    /\ ~IsNone(stored)
    /\ Get(data).today_attempt > 0

\* C7 - Round trip: a cached state saved with to_dict and loaded with
\* from_dict equals the state that was saved, in every field, batches and
\* timestamps that are None and absent prices included.
C7_RoundTrip == ~IsNone(ret) => SameData(Get(ret), Get(arg))

\* A loaded state with a None batch, an empty one, a None timestamp, an
\* absent price and a timestamp of another time zone
C7_Witness ==
    /\ ~IsNone(ret)
    /\ IsNone(Get(arg).today)
    /\ IsNone(Get(arg).today_lastrequest)
    /\ ~IsNone(Get(arg).tomorrow)
    /\ Len(Get(Get(arg).tomorrow)) = 2
    /\ "FR" \in DOMAIN Get(Get(arg).tomorrow)[1].prijs
    /\ IsNone(Get(Get(arg).tomorrow)[1].prijs.FR)
    /\ ~IsNone(Get(arg).tomorrow_lastrequest)
    /\ Get(Get(arg).tomorrow_lastrequest).off # LocalOffset

\* C9 - Gas today freshness: true exactly when no batch is cached (None or
\* empty) or now is at least one day past the first cached quote's time.
C9_GasTodayFreshness ==
    Returned("gas", "_should_update_today") =>
        Get(ret).value =
            (\/ NoBatch(Get(arg).data.today)
             \/ Get(arg).now.wall - FirstDatum(Get(arg).data.today).wall
                    >= MinutesPerDay)

\* The batch of day 1, 06:00 at 07:00 the day after is to be updated, and one
\* minute before 06:00 the day after it is not
C9_Witness ==
    /\ Returned("gas", "_should_update_today")
    /\ Get(arg).data.today = Some(Batch("gas", 1))
    /\ Get(arg).now = combine(2, 7)
    /\ Get(ret).value

C9_WitnessNot ==
    /\ Returned("gas", "_should_update_today")
    /\ Get(arg).data.today = Some(Batch("gas", 1))
    /\ Get(arg).now = DateTime(2 * MinutesPerDay + 5 * 60 + 59, LocalOffset)
    /\ ~Get(ret).value

\* C10 - Electricity today freshness: true exactly when no batch is cached
\* (None or empty) or now's calendar date is not the first cached quote's.
C10_ElectricityTodayFreshness ==
    Returned("electricity", "_should_update_today") =>
        Get(ret).value =
            (\/ NoBatch(Get(arg).data.today)
             \/ Get(arg).now.wall \div MinutesPerDay
                    # FirstDatum(Get(arg).data.today).wall \div MinutesPerDay)

\* Right after midnight, at an hour before the hour of the last request, the
\* batch of the day before is to be updated
C10_Witness ==
    /\ Returned("electricity", "_should_update_today")
    /\ Get(arg).data.today = Some(Batch("electricity", 1))
    /\ Get(arg).data.today_lastrequest = Some(combine(1, 15))
    /\ Get(arg).now = DateTime(2 * MinutesPerDay + 10, LocalOffset)
    /\ Get(ret).value

\* C11 - Electricity tomorrow gating without cache: with no tomorrow batch
\* cached (None or empty) _should_update_tomorrow is false at every local time
\* before 15:00 and true from 15:00 on.
C11_ElectricityTomorrowNoCache ==
    (Returned("electricity", "_should_update_tomorrow")
         /\ NoBatch(Get(arg).data.tomorrow)) =>
        Get(ret).value = (Get(arg).now.wall % MinutesPerDay >= 15 * 60)

\* One minute before 15:00 nothing is asked for, at 15:00 it is
C11_Witness ==
    /\ Returned("electricity", "_should_update_tomorrow")
    /\ Get(arg).data.tomorrow = Some(<<>>)
    /\ Get(arg).now = combine(1, 15)
    /\ Get(ret).value

C11_WitnessNot ==
    /\ Returned("electricity", "_should_update_tomorrow")
    /\ IsNone(Get(arg).data.tomorrow)
    /\ Get(arg).now = DateTime(MinutesPerDay + 14 * 60 + 59, LocalOffset)
    /\ ~Get(ret).value

\* C12 - Gas has no forward feed: the gas coordinator never attempts a fetch
\* for tomorrow and notifies nobody of one, and tomorrow,
\* tomorrow_lastrequest and tomorrow_attempt stay None, None and 0 in the
\* state in memory, in the running tick's state and in the stored record.
C12_GasNoTomorrow ==
    kind = "gas" =>
        /\ pc # "fetch_tomorrow"
        /\ ~tick.attempted["tomorrow"]
        /\ fetched["tomorrow"].n = 0
        /\ tick.notified = (IF tick.attempted["today"] THEN Len(observers) ELSE 0)
        /\ \A s \in {data, new_data} :
               ~IsNone(s) =>
                   /\ IsNone(Get(s).tomorrow)
                   /\ IsNone(Get(s).tomorrow_lastrequest)
                   /\ Get(s).tomorrow_attempt = 0
        /\ ~IsNone(stored) =>
               /\ IsNone(Get(stored).tomorrow)
               /\ IsNone(Get(stored).tomorrow_lastrequest)
               /\ GetAttempt(Get(stored), "tomorrow_attempt") = 0

\* A gas tick in the afternoon, after today's batch was fetched and the
\* state saved
C12_Witness ==
    /\ kind = "gas"
    /\ TickEnded
    /\ HourOf(now) >= 15
    /\ ~IsNone(data)
    /\ ~NoBatch(Get(data).today)
    /\ ~IsNone(stored)
    /\ "today_attempt" \in DOMAIN Get(stored)
    /\ Get(stored).today_attempt > 0

\* C13 - Request accounting: on the step that issues a fetch every attached
\* observer gets exactly one count_api_request call and an observer that is
\* not attached (never attached, or detached before) gets none; no other step
\* of a tick delivers a call, so a tick that issues no fetch delivers none.
C13_RequestAccounting ==
    [][\A o \in Observers :
          LET before == IF pc = "idle" THEN 0 ELSE tick.received[o]
              issued == \E f \in Feeds : Issues(f)
          IN  /\ issued =>
                     tick'.received[o] =
                         before + (IF Attached(observers, o) THEN 1 ELSE 0)
              /\ ~issued =>
                     tick'.received[o] =
                         IF tick'.kind = tick.kind /\ clock' = clock
                         THEN tick.received[o] ELSE 0
              /\ (tick'.kind = "update" /\ tick'.result # "running"
                     /\ \A f \in Feeds : ~tick'.attempted[f])
                    => tick'.received[o] = 0]_vars

\* A tick that fetched both feeds with one observer attached and the other
\* detached before the tick
C13_Witness ==
    /\ TickEnded
    /\ tick.attempted["today"]
    /\ tick.attempted["tomorrow"]
    /\ Called("detach")
    /\ Get(ret).observer = "other"
    /\ Get(ret).attached
    /\ observers = <<"api_requests">>
    /\ tick.received["api_requests"] = 2
    /\ tick.received["other"] = 0

\* C19 - Detach is a no-op when not attached: detach of an observer the list
\* does not hold completes without error and leaves the list as it was.
C19_DetachNoOp ==
    (Called("detach") /\ ~Get(ret).attached) =>
        /\ Get(ret).value = "None"
        /\ observers = Get(ret).before

\* C14 - Store coherence: when the state a tick past the initial load returns
\* differs from the state before the tick, that state has been written to
\* the store; so between ticks the stored record, loaded, equals the state in
\* memory.
C14_StoreCoherence ==
    /\ (TickEnded /\ tick.result = "returned" /\ tick.changed) =>
           /\ tick.saved
           /\ stored = Some(to_dict(Get(data)))
    /\ (pc = "idle" /\ ~IsNone(data)) =>
           SameData(from_dict(stored), Get(data))

\* A tick whose fetch raised: only the attempt counter changed, and the
\* state was saved
C14_Witness ==
    /\ TickEnded
    /\ tick.result = "returned"
    /\ tick.raised = "today"
    /\ tick.changed
    /\ Get(data).today_attempt = 1
    /\ tick.saved
    /\ stored = Some(to_dict(Get(data)))

\* A tick that changed nothing and did not save
C14_WitnessUnchanged ==
    /\ TickEnded
    /\ tick.result = "returned"
    /\ ~tick.changed
    /\ ~tick.saved
    /\ ~IsNone(stored)
    /\ "today_attempt" \in DOMAIN Get(stored)
    /\ stored = Some(to_dict(Get(data)))

\* C15 - Only completed ticks are persisted: a tick abandoned while a fetch
\* is in flight writes nothing to the store, which keeps the record of the
\* last completed tick.
C15_OnlyCompletedPersisted ==
    [][(tick.result = "running" /\ tick'.result = "cancelled")
          => stored' = stored]_vars

\* C16 - Fetch failure classification: a transport timeout raises
\* EneverCannotConnect; a status other than 200 raises a generic EneverError
\* that carries the status code; a 200 response without a data element raises
\* a generic EneverError; a 200 response whose data is not a list raises
\* EneverInvalidToken when its code is "2" and a generic EneverError
\* otherwise; a 200 response whose data is a list returns the parsed batch;
\* no timeout ends as a generic error.
C16_FetchClassification ==
    Called("_fetch_parsed") =>
        LET raw == Get(arg)
            result == Get(ret).value
        IN  /\ raw.transport = "TimeoutException" =>
                   Raises(result, "EneverCannotConnect")
            /\ (raw.transport = "ok" /\ raw.status_code # 200) =>
                   /\ Raises(result, "EneverError")
                   /\ \E i \in 1..Len(result.args) :
                          result.args[i] = raw.status_code
            /\ Ok200(raw) =>
                   LET payload == raw.body.payload
                   IN  IF "data" \notin DOMAIN payload
                       THEN Raises(result, "EneverError")
                       ELSE IF payload.data.type # "list"
                       THEN IF CodeOf(raw) = Some("2")
                            THEN Raises(result, "EneverInvalidToken")
                            ELSE Raises(result, "EneverError")
                       ELSE /\ result.kind = "return"
                            /\ Len(result.value) = Len(payload.data.items)
            /\ Raises(result, "EneverError") => raw.transport # "TimeoutException"

\* C17 - Credential validation has exactly three outcomes: validate_token
\* returns, raises EneverInvalidToken or raises EneverCannotConnect, and the
\* configuration flow reports success, invalid_auth or cannot_connect.
C17_ThreeOutcomes ==
    Called("async_step_user") =>
        /\ \/ Get(ret).validated.kind = "return"
           \/ Raises(Get(ret).validated, "EneverInvalidToken")
           \/ Raises(Get(ret).validated, "EneverCannotConnect")
        /\ Get(ret).value \in {"create_entry", "invalid_auth", "cannot_connect"}

\* C17 as amended - validate_token returns when a 200 response carries a
\* code other than "2", raises EneverInvalidToken when the code is "2",
\* raises EneverCannotConnect on a transport timeout and raises another error
\* in every other case (a generic EneverError carrying the status code when
\* the status is not 200); the configuration flow reports success,
\* invalid_auth, cannot_connect or unknown accordingly.
C17_FourOutcomes ==
    Called("async_step_user") =>
        LET raw == Get(arg)
            validated == Get(ret).validated
            flow == Get(ret).value
            coded == IF Ok200(raw) THEN ~IsNone(CodeOf(raw)) ELSE FALSE
        IN  /\ (validated.kind = "return") = (flow = "create_entry")
            /\ Raises(validated, "EneverInvalidToken") = (flow = "invalid_auth")
            /\ Raises(validated, "EneverCannotConnect") = (flow = "cannot_connect")
            /\ flow \in {"create_entry", "invalid_auth", "cannot_connect", "unknown"}
            /\ (flow = "cannot_connect") = (raw.transport = "TimeoutException")
            /\ (flow = "invalid_auth") = (coded /\ CodeOf(raw) = Some("2"))
            /\ (flow = "create_entry") = (coded /\ CodeOf(raw) # Some("2"))
            /\ (raw.transport = "ok" /\ raw.status_code # 200) =>
                   /\ Raises(validated, "EneverError")
                   /\ validated.args = <<raw.status_code>>

\* The server answers with status 500: the flow reports unknown
C17_Witness ==
    /\ Called("async_step_user")
    /\ Get(arg).transport = "ok"
    /\ Get(arg).status_code = 500
    /\ Raises(Get(ret).validated, "EneverError")
    /\ Get(ret).value = "unknown"

\* C18 - Average over valid entries: for a non-empty day the average is the
\* sum of the prices that are not absent divided by their number (absent
\* prices are skipped, not counted as zero; a day with no price at all has no
\* such quotient and no average); for an absent or empty day it is absent.
C18_AverageOverValid ==
    Called("_calculate_average_price") =>
        LET day == Get(arg).data
            average == Get(ret).value
        IN  IF NoBatch(day) THEN IsNone(average)
            ELSE IF Priced(Get(day)) = {} THEN IsNone(average)
            ELSE /\ ~IsNone(average)
                 /\ Get(average).num * Cardinality(Priced(Get(day)))
                        = Total(Get(day), Priced(Get(day))) * Get(average).den

\* C20 - Monthly request counter: while the month attribute names the
\* current month a count_api_request call adds exactly 1 to the counter and a
\* day change leaves it as it is (it never decreases); when the attribute
\* names another month, or there is none, the counter is set to 0 before the
\* call counts; after either call the attribute names the first day of the
\* current month.
C20_MonthlyCounter ==
    (Called("count_api_request") \/ Called("_handle_day_change")) =>
        LET before == Get(ret).before
            current == (Get(ret).now.wall \div MinutesPerDay) \div DaysInMonth
            same == IF IsNone(before.month) THEN FALSE
                    ELSE /\ TagMonth(Get(before.month)) = current
                         /\ TagIsFirstDay(Get(before.month))
            counted == IF Called("count_api_request") THEN 1 ELSE 0
        IN  /\ same => CounterOf(sensor) = CounterOf(before) + counted
            /\ ~same => CounterOf(sensor) = counted
            /\ ~IsNone(sensor.native_value)
            /\ ~IsNone(sensor.month)
            /\ TagMonth(Get(sensor.month)) = current
            /\ TagIsFirstDay(Get(sensor.month))

\* A request counted in the new month, after two were counted in the month
\* before
C20_Witness ==
    /\ Called("count_api_request")
    /\ CounterOf(Get(ret).before) >= 2
    /\ TagMonth(Get(Get(ret).before.month)) = 1
    /\ Get(ret).now.wall \div MinutesPerDay = 2 * DaysInMonth
    /\ CounterOf(sensor) = 1

\* A request counted on top of a count restored after a restart, whose month
\* attribute is the text of a date
C20_WitnessRestored ==
    /\ Called("count_api_request")
    /\ Get(Get(ret).before.month).type = "str"
    /\ CounterOf(Get(ret).before) = 2
    /\ CounterOf(sensor) = 3

\* C21 - Cache isolation by feed and resolution: the gas coordinator's store
\* is the record keyed gas and the store of an electricity coordinator of
\* resolution r the record keyed electricity.r, and no other record is read
\* or written; after a switch from r to another resolution the first tick
\* loads the record of the new key, and the record saved under r stays as it
\* was left.
C21_CacheIsolation ==
    LET entry == Get(arg)
        gas == <<"enever", "gas">>
        electricity(r) == <<"enever", "electricity", r>>
    IN  /\ kind = "gas" =>
               /\ entry.key = gas
               /\ \A k \in DOMAIN Files : k # gas => IsNone(Files[k])
        /\ kind = "electricity" =>
               /\ entry.key = electricity(entry.resolution)
               /\ \A k \in DOMAIN Files :
                      IsNone(Files[k]) \/ \E r \in Resolutions : k = electricity(r)
               /\ tick.kind = "load" =>
                      data = Some(from_dict(
                                 FileAt(Files, electricity(entry.resolution))))
               /\ (Called("async_step_reconfigure")
                       /\ Get(ret).from # entry.resolution) =>
                      FileAt(Files, electricity(Get(ret).from)) = Get(ret).left

\* After a switch from 60 to 15 with a record saved under 60, the electricity
\* coordinator has loaded the empty state and saved a record of its own under
\* 15, and the record under 60 is as it was left
C21_Witness ==
    /\ kind = "electricity"
    /\ Called("async_step_reconfigure")
    /\ Get(ret).from = "60"
    /\ Get(arg).resolution = "15"
    /\ ~IsNone(Get(ret).left)
    /\ ~IsNone(stored)
    /\ stored # Get(ret).left
    /\ FileAt(Files, <<"enever", "electricity", "60">>) = Get(ret).left

\* C22 - Recovery: once the API answers every request and ticks continue, a
\* feed whose freshness predicate is true and that the last tick has not
\* fetched is fetched by a later tick, and its batch and last-request
\* timestamp are replaced; whatever failed before, a reached daily cap
\* included.  Stated of the feeds found stale on the first day explored.
C22_Recovery ==
    \A f \in Feeds :
        (/\ Healthy
         /\ pc = "idle"
         /\ ~IsNone(data)
         /\ DateOf(now) = DateOf(DateTime(StartClock, LocalOffset))
         /\ ShouldUpdate(f)
         /\ ~Fetched(f))
            ~> Fetched(f)

\* The API has become healthy after a tick whose request failed, and the
\* day's requests have closed the feed's gate by the daily cap while the feed
\* is still to be updated
C22_Witness ==
    /\ Healthy
    /\ TickEnded
    /\ tick.raised = "today"
    /\ Capped(Get(data), "today")
    /\ DateOf(Get(LastRequestOf(Get(data), "today"))) = DateOf(now)
    /\ ShouldUpdate("today")
    /\ ~Fetched("today")

\* The feed fetched on the day after the failures
C22_WitnessFetched ==
    /\ Fetched("today")
    /\ DateOf(now) > DateOf(DateTime(Get(arg).failing_until, LocalOffset))
    /\ Get(arg).failing_until >= StartClock + 6 * 60

\* C23 - Retry spacing after a failed attempt: when the fetch of a feed has
\* failed in a tick, the next tick attempts no fetch of that feed unless the
\* feed's minimum interval has passed since the failed attempt.
C23_RetrySpacing ==
    [][\A f \in Feeds :
          (TickEnded /\ tick.raised = f /\ Issues(f)) =>
              Instant(now') - Instant(now) >= _get_request_interval(kind)]_vars

\* C24 - Poll interval: the interval is 5 seconds while the coordinator has
\* no state and after the load tick, and 60 seconds after every later tick,
\* whether or not a fetch of that tick failed.
C24_PollInterval ==
    /\ (IsNone(data) \/ tick.kind = "load") => update_interval = 5
    /\ TickEnded => update_interval = 60

\* C25 - Daily reset of the attempt counter: a tick past the load counts a
\* feed's attempts from 0 when the feed's last-request timestamp is present
\* and of another calendar day than now, and from the counter it found when
\* the timestamp is absent or of today; the gate sees the counter after the
\* reset, so a cap reached on an earlier day does not close it.
C25_DailyReset ==
    [][TickBegins =>
          \A f \in Feeds :
              LET before == Get(data)
                  reset == OtherDay(before, f, now')
                  base == IF reset THEN 0 ELSE AttemptOf(before, f)
              IN  /\ AttemptOf(BegunState, f) =
                         base + (IF tick'.attempted[f] THEN 1 ELSE 0)
                  /\ (/\ f = "today"
                      /\ reset
                      /\ ~tick'.throttled[f]
                      /\ _should_update_today(kind, now', before))
                         => tick'.attempted[f]]_vars

\* The first tick of a day found a counter of the day before at the cap, set
\* it to 0 and fetched
C25_Witness ==
    /\ tick.kind = "update"
    /\ tick.attempted["today"]
    /\ ~IsNone(data)
    /\ OtherDay(Get(data), "today", now)
    /\ AttemptOf(Get(data), "today") >= MAX_ATTEMPTS_COUNT
    /\ pc = "fetch_today"
    /\ AttemptOf(Get(new_data), "today") = 1

\* A feed never fetched with success keeps its counter from day to day
C25_WitnessKept ==
    /\ TickEnded
    /\ IsNone(LastRequestOf(Get(data), "today"))
    /\ AttemptOf(Get(data), "today") > MAX_ATTEMPTS_COUNT

\* C26 - Failed attempts are counted: the step that issues a fetch adds
\* exactly one to the feed's attempt counter; the counter so incremented is in
\* the state the tick returns and in the record it writes, also when the
\* fetch raises; and an attempt that brings the counter to the daily maximum,
\* failed or not, is the feed's last one of that day.
C26_FailedAttemptsCounted ==
    [][\A f \in Feeds :
          LET counter == IF f = "today" THEN "today_attempt" ELSE "tomorrow_attempt"
              found == IF pc = "idle"
                       THEN IF OtherDay(Get(data), f, now') THEN 0
                            ELSE AttemptOf(Get(data), f)
                       ELSE AttemptOf(Get(new_data), f)
          IN  /\ Issues(f) => AttemptOf(Get(new_data'), f) = found + 1
              /\ (TickEnds /\ tick.attempted[f]) =>
                     /\ ~IsNone(data')
                     /\ AttemptOf(Get(data'), f) = AttemptOf(Get(new_data), f)
                     /\ ~IsNone(stored')
                     /\ GetAttempt(Get(stored'), counter) = AttemptOf(Get(new_data), f)
              /\ (/\ TickEnded
                  /\ tick.attempted[f]
                  /\ AttemptOf(Get(data), f) >= MAX_ATTEMPTS_COUNT
                  /\ TickBegins
                  /\ DateOf(now') = DateOf(now))
                     => ~tick'.attempted[f]]_vars

\* C27 - No write without a change: a tick past the load that attempts no
\* fetch and returns a state equal in every field to the state before it
\* writes nothing to the store.
C27_NoWriteWithoutChange ==
    (/\ TickEnded
     /\ tick.result = "returned"
     /\ \A f \in Feeds : ~tick.attempted[f]
     /\ ~tick.changed)
        => ~tick.saved

\* C28 - Independent per-feed bookkeeping: a step of a tick changes a feed's
\* batch, last-request timestamp or attempt counter only when it resets that
\* feed's counter, issues that feed's fetch or takes that feed's answer; and
\* whether a feed is fetched is decided by its own timestamp and counter and
\* its own freshness predicate, so the other feed's reached cap does not
\* close its gate.
C28_IndependentFeeds ==
    [][(~IsNone(data) /\ ~IsNone(data')) =>
          \A f \in Feeds :
              /\ FeedFields(BegunState, f) # FeedFields(WorkingState, f) =>
                     \/ TickBegins /\ OtherDay(Get(data), f, now')
                     \/ Issues(f)
                     \/ pc = (IF f = "today" THEN "fetch_today" ELSE "fetch_tomorrow")
              /\ TickBegins =>
                     tick'.eligible[f] =
                         (/\ OwnGate(kind, Get(data), f, now')
                          /\ IF f = "today"
                             THEN _should_update_today(kind, now', Get(data))
                             ELSE _should_update_tomorrow(kind, now', Get(data)))]_vars

\* A tick that found today's feed stale with its gate closed by the daily cap
\* has fetched tomorrow's feed
C28_Witness ==
    /\ TickEnded
    /\ Capped(Get(data), "today")
    /\ ~OtherDay(Get(data), "today", now)
    /\ ShouldUpdate("today")
    /\ ~tick.attempted["today"]
    /\ tick.attempted["tomorrow"]
    /\ Fetched("tomorrow")
    /\ Get(data).tomorrow_attempt = 1

\* A tick has issued today's fetch over a state whose counter of tomorrow's
\* feed is at the maximum
C28_WitnessTomorrowCapped ==
    /\ pc = "fetch_today"
    /\ Capped(Get(data), "tomorrow")
    /\ tick.attempted["today"]

\* C29 - Copy-on-write visibility: self.data changes only on the step on
\* which a tick returns, never while a tick is suspended in a fetch, and then
\* it becomes the state the tick has built; an hour change handler that runs
\* while a tick is suspended is handed the state of the last tick that
\* returned, and changes neither that state nor the one the tick is building.
C29_CopyOnWrite ==
    [][/\ data' # data => pc' = "idle"
       /\ (pc # "idle" /\ pc' = "idle") =>
              data' = Some([Get(new_data) EXCEPT
                               !.today = Get(data').today,
                               !.today_lastrequest = Get(data').today_lastrequest,
                               !.tomorrow = Get(data').tomorrow,
                               !.tomorrow_lastrequest = Get(data').tomorrow_lastrequest])
       /\ ret' # ret =>
              /\ Get(ret').data = Get(data)
              /\ data' = data
              /\ new_data' = new_data]_vars

\* The handler runs at 15:00 while the tick is suspended in tomorrow's fetch
\* with today's new batch in its new state, and is handed the old batch
C29_Witness ==
    /\ Called("_handle_hour_change")
    /\ Get(ret).suspended
    /\ pc = "fetch_tomorrow"
    /\ Get(ret).data = Get(data)
    /\ ~NoBatch(Get(data).today)
    /\ Get(new_data).today # Get(data).today
    /\ Get(new_data).today_attempt # Get(data).today_attempt

\* C30 - Electricity tomorrow freshness with cache: with a non-empty tomorrow
\* batch cached whose first quote is dated D, _should_update_tomorrow is true
\* exactly when now is 15:00 local time of day D or later.
C30_ElectricityTomorrowCached ==
    (Returned("electricity", "_should_update_tomorrow")
         /\ ~NoBatch(Get(arg).data.tomorrow)) =>
        LET D == FirstDatum(Get(arg).data.tomorrow).wall \div MinutesPerDay
        IN  Get(ret).value = (Get(arg).now.wall >= D * MinutesPerDay + 15 * 60)

\* With the batch of day 2 cached nothing is asked for one minute before
\* 15:00 of day 2, and at 15:00 of day 2 it is
C30_Witness ==
    /\ Returned("electricity", "_should_update_tomorrow")
    /\ Get(arg).data.tomorrow = Some(Batch("electricity", 2))
    /\ Get(arg).now = DateTime(2 * MinutesPerDay + 14 * 60 + 59, LocalOffset)
    /\ ~Get(ret).value

C30_WitnessStale ==
    /\ Returned("electricity", "_should_update_tomorrow")
    /\ Get(arg).data.tomorrow = Some(Batch("electricity", 2))
    /\ Get(arg).now = combine(2, 15)
    /\ Get(ret).value

\* C30, of the ticks - while the cached tomorrow batch is the one of a day D,
\* tomorrow's fetch is issued at no time before 15:00 of day D
C30_NoFetchBeforeStale ==
    (/\ kind = "electricity"
     /\ pc = "fetch_tomorrow"
     /\ ~NoBatch(Get(data).tomorrow)) =>
        now.wall >= DateOf(FirstDatum(Get(data).tomorrow)) * MinutesPerDay + 15 * 60

\* The batch of the next day was fetched at 15:00 and the ticks up to 06:00
\* of that day have not asked for it again
C30_WitnessTicks ==
    /\ kind = "electricity"
    /\ TickEnded
    /\ ~NoBatch(Get(data).tomorrow)
    /\ DateOf(FirstDatum(Get(data).tomorrow)) = DateOf(now)
    /\ DateOf(Get(Get(data).tomorrow_lastrequest)) = DateOf(now) - 1
    /\ HourOf(now) = 6
    /\ ~tick.attempted["tomorrow"]

\* The entity of coordinator k has just read the published state
Refreshed(k) ==
    IF IsNone(ret) \/ IsNone(data) THEN FALSE
    ELSE /\ kind = k
         /\ Get(ret).fn \in {"_handle_coordinator_update", "_handle_hour_change"}

\* The price the provider is quoted in the latest quote of a batch that has
\* begun at n; None when no quote has begun or that quote has no price
CurrentPriceOf(batch, n) ==
    LET begun == {i \in 1..Len(batch) : Instant(batch[i].datum) <= Instant(n)}
    IN  IF begun = {} THEN None
        ELSE LET last == CHOOSE i \in begun :
                     \A j \in begun :
                         Instant(batch[j].datum) <= Instant(batch[i].datum)
             IN  prijs_get(batch[last].prijs, Provider)

\* C31 - Electricity fallback across midnight: when the cached today batch
\* is absent, empty or not dated the current day and the cached tomorrow
\* batch is dated the current day, the electricity sensor's value,
\* today_average and prices_today are those of the tomorrow batch; when
\* neither batch is dated the current day the value is absent; and
\* prices_tomorrow is the tomorrow batch exactly when that batch is dated
\* the next day, and absent otherwise.
C31_ElectricityFallback ==
    Refreshed("electricity") =>
        LET n == DateTime(clock, LocalOffset)
            d == Get(data)
            today_is_current == DatedOn(d.today, DateOf(n))
            tomorrow_is_current == DatedOn(d.tomorrow, DateOf(n))
            tomorrow_is_next == DatedOn(d.tomorrow, DateOf(n) + 1)
        IN  /\ (~today_is_current /\ tomorrow_is_current) =>
                   /\ sensor.attrs.prices_today
                          = _get_provider_data(sensor, d.tomorrow)
                   /\ sensor.attrs.today_average
                          = _calculate_average_price(
                                _get_provider_data(sensor, d.tomorrow))
                   /\ sensor.native_value
                          = CurrentPriceOf(Get(d.tomorrow), n)
            /\ (~today_is_current /\ ~tomorrow_is_current) =>
                   IsNone(sensor.native_value)
            /\ IF tomorrow_is_next
               THEN sensor.attrs.prices_tomorrow
                        = _get_provider_data(sensor, d.tomorrow)
               ELSE IsNone(sensor.attrs.prices_tomorrow)

\* The today batch is of the day before, the tomorrow batch is of the
\* current day, and the sensor shows the afternoon price of the latter
C31_Witness ==
    /\ Refreshed("electricity")
    /\ DatedOn(Get(data).today, DateOf(DateTime(clock, LocalOffset)) - 1)
    /\ DatedOn(Get(data).tomorrow, DateOf(DateTime(clock, LocalOffset)))
    /\ HourOf(DateTime(clock, LocalOffset)) = 12
    /\ sensor.native_value = prijs_get(Get(Get(data).tomorrow)[2].prijs, Provider)
    /\ ~IsNone(sensor.native_value)
    /\ sensor.native_value # prijs_get(Get(Get(data).today)[2].prijs, Provider)

\* The tomorrow batch is of the next day and is shown as prices_tomorrow
C31_WitnessTomorrow ==
    /\ Refreshed("electricity")
    /\ DatedOn(Get(data).today, DateOf(DateTime(clock, LocalOffset)))
    /\ DatedOn(Get(data).tomorrow, DateOf(DateTime(clock, LocalOffset)) + 1)
    /\ ~IsNone(sensor.attrs.prices_tomorrow)

\* The price the gas sensor's provider is quoted in the published batch
CachedGasPrice == prijs_get(Get(Get(data).today)[1].prijs, Provider)

\* The published gas batch expires a day after its timestamp, the instant
\* from which GasPricesCoordinator._should_update_today is true
GasExpiry == Instant(Get(Get(data).today)[1].datum) + MinutesPerDay

\* The gas sensor has read a published batch that quotes its provider a
\* price of zero or more
GasPriceRead ==
    /\ Refreshed("gas")
    /\ ~NoBatch(Get(data).today)
    /\ ~IsNone(CachedGasPrice)
    /\ Get(CachedGasPrice) >= 0

\* C32 - Gas grace period: for some time after the cached batch expires
\* (its timestamp plus one day, when the coordinator becomes eligible to
\* fetch again) the gas sensor still shows the cached price; stated of the
\* shortest time there is, the first minute after the expiry.
C32_GasGracePeriod ==
    (/\ GasPriceRead
     /\ clock - LocalOffset = GasExpiry + 1)
        => /\ Gas_should_update_today(DateTime(clock, LocalOffset), Get(data))
           /\ sensor.native_value = CachedGasPrice

\* Up to the instant of the expiry the sensor shows the cached price while
\* the coordinator is already eligible to fetch
C32_WitnessAtExpiry ==
    /\ GasPriceRead
    /\ clock - LocalOffset = GasExpiry
    /\ Gas_should_update_today(DateTime(clock, LocalOffset), Get(data))
    /\ sensor.native_value = CachedGasPrice

\* The cached gas batch quotes the provider a negative price
GasPriceNegative ==
    /\ Refreshed("gas")
    /\ ~NoBatch(Get(data).today)
    /\ ~IsNone(CachedGasPrice)
    /\ Get(CachedGasPrice) < 0

\* now is within the validity window the gas sensor gives the batch: from
\* two hours before its timestamp to a day after it
GasInWindow ==
    /\ GasExpiry - 26 * 60 <= clock - LocalOffset
    /\ clock - LocalOffset <= GasExpiry

\* C33 - Gas price is never negative (as stated): after every coordinator
\* update and hourly refresh the gas sensor's value is absent or at least
\* zero, and when the cached price is negative the value is the one the
\* sensor displayed before.
C33_GasNeverNegative ==
    /\ [](kind = "gas" =>
             \/ IsNone(sensor.native_value)
             \/ Get(sensor.native_value) >= 0)
    /\ [][GasPriceNegative' =>
             sensor'.native_value = sensor.native_value]_vars

\* C33 (amended) - the value is absent or at least zero, and when the
\* cached price is negative the value is the one displayed before while
\* now is within the batch's validity window and absent outside it.
C33_GasNeverNegativeInWindow ==
    /\ [](kind = "gas" =>
             \/ IsNone(sensor.native_value)
             \/ Get(sensor.native_value) >= 0)
    /\ [][GasPriceNegative' =>
             sensor'.native_value =
                 IF GasInWindow' THEN sensor.native_value ELSE None]_vars

\* The cached price is negative and within its validity window, and the
\* sensor displays a price: the one it displayed before
C33_Witness ==
    /\ GasPriceNegative
    /\ GasInWindow
    /\ ~IsNone(sensor.native_value)

\* An hourly refresh after the expiry of a batch with a negative price
C33_WitnessExpired ==
    /\ GasPriceNegative
    /\ ~GasInWindow
    /\ clock - LocalOffset > GasExpiry
    /\ Get(ret).fn = "_handle_hour_change"
    /\ IsNone(sensor.native_value)

\* C34 - Migration converges: once async_migrate_entry has run on a
\* version-1 entry the entry is at the flow's current version (1.4), and a
\* later set-up changes nothing in it, so the resolution chosen since stays.
C34_MigrationConverges ==
    /\ [](Get(arg).migrated =>
             /\ Get(arg).entry.version = VERSION
             /\ Get(arg).entry.minor_version = MINOR_VERSION)
    /\ [][(Get(arg).migrated /\ Get(arg').setups # Get(arg).setups) =>
             /\ Get(arg').entry = Get(arg).entry
             /\ IsNone(Get(arg).chosen) \/
                    Get(arg').entry.data["CONF_RESOLUTION"]
                        = Get(Get(arg).chosen)]_vars

\* A set-up after the migration hands the entry to async_migrate_entry
\* again, which puts the migration default over the resolution the user
\* chose
C34_ChoiceOverwritten ==
    /\ ~IsNone(ret)
    /\ Get(ret).fn = "async_migrate_entry"
    /\ Get(arg).migrated
    /\ Get(arg).chosen = Some("15")
    /\ Get(ret).entry.data["CONF_RESOLUTION"] = "15"
    /\ Get(arg).entry.data["CONF_RESOLUTION"] = "60"


====
